---------------------------- MODULE Spec2Model ----------------------------
(***************************************************************************)
(* A model of package env (tooxie/env): binding of environment variables   *)
(* to a struct whose fields carry `env:"..."` tags.                         *)
(*                                                                         *)
(* Go strings are modelled as sequences of one-character strings, so that  *)
(* the tag grammar (regular expressions over the tag text), the splitting  *)
(* of slices and the scalar parsers are computed character by character,   *)
(* as the code computes them.                                              *)
(***************************************************************************)
EXTENDS Integers, Sequences, FiniteSets, TLC

(***************************************************************************)
(* Text helpers: package strings.                                          *)
(***************************************************************************)
Lowers == <<"a","b","c","d","e","f","g","h","i","j","k","l","m",
            "n","o","p","q","r","s","t","u","v","w","x","y","z">>
Uppers == <<"A","B","C","D","E","F","G","H","I","J","K","L","M",
            "N","O","P","Q","R","S","T","U","V","W","X","Y","Z">>
Digits == <<"0","1","2","3","4","5","6","7","8","9">>

IndexIn(c, table) ==
    IF \E i \in 1..Len(table) : table[i] = c
    THEN CHOOSE i \in 1..Len(table) : table[i] = c
    ELSE 0

ToLowerChar(c) == IF IndexIn(c, Uppers) > 0 THEN Lowers[IndexIn(c, Uppers)] ELSE c
ToUpperChar(c) == IF IndexIn(c, Lowers) > 0 THEN Uppers[IndexIn(c, Lowers)] ELSE c

\* strings.ToLower
ToLower(s) == [i \in 1..Len(s) |-> ToLowerChar(s[i])]
\* strings.ToUpper
ToUpper(s) == [i \in 1..Len(s) |-> ToUpperChar(s[i])]

\* whether p occurs in s starting at position i
HasPrefixAt(s, p, i) ==
    /\ i >= 1
    /\ i + Len(p) - 1 <= Len(s)
    /\ \A k \in 1..Len(p) : s[i + k - 1] = p[k]

\* strings.Contains
Contains(s, sub) == \E i \in 1..(Len(s) + 1) : HasPrefixAt(s, sub, i)

\* strings.Split / strings.SplitSeq with a non-empty separator: one piece per
\* occurrence of sep plus one, in order; an empty separator explodes s into
\* its characters.
RECURSIVE SplitFrom(_, _, _, _)
SplitFrom(s, sep, start, i) ==
    IF i > Len(s) THEN << SubSeq(s, start, Len(s)) >>
    ELSE IF HasPrefixAt(s, sep, i)
         THEN << SubSeq(s, start, i - 1) >> \o SplitFrom(s, sep, i + Len(sep), i + Len(sep))
         ELSE SplitFrom(s, sep, start, i + 1)

Split(s, sep) ==
    IF Len(sep) = 0 THEN [i \in 1..Len(s) |-> << s[i] >>]
    ELSE SplitFrom(s, sep, 1, 1)

\* strings.Join
RECURSIVE Join(_, _)
Join(elems, sep) ==
    IF Len(elems) = 0 THEN << >>
    ELSE IF Len(elems) = 1 THEN elems[1]
    ELSE elems[1] \o sep \o Join(Tail(elems), sep)

IsSpace(c) == c \in {" ", "\t", "\n", "\r"}

\* strings.TrimSpace
RECURSIVE TrimLeft(_)
TrimLeft(s) == IF Len(s) > 0 /\ IsSpace(s[1]) THEN TrimLeft(Tail(s)) ELSE s
RECURSIVE TrimRight(_)
TrimRight(s) ==
    IF Len(s) > 0 /\ IsSpace(s[Len(s)]) THEN TrimRight(SubSeq(s, 1, Len(s) - 1)) ELSE s
TrimSpace(s) == TrimRight(TrimLeft(s))

(***************************************************************************)
(* The tag grammar: src/tags.go.                                           *)
(***************************************************************************)
Quote == "'"
defaultSeparator == << " " >>

W_optional  == <<"o","p","t","i","o","n","a","l">>
W_required  == <<"r","e","q","u","i","r","e","d">>
W_default   == <<"d","e","f","a","u","l","t">>
W_separator == <<"s","e","p","a","r","a","t","o","r">>
W_name      == <<"n","a","m","e">>
W_values    == <<"v","a","l","u","e","s">>

\* position of the first Quote at or after i with no newline before it
\* (the regexp's `.` does not match a newline), 0 if there is none
RECURSIVE ClosingQuote(_, _)
ClosingQuote(tag, i) ==
    IF i > Len(tag) THEN 0
    ELSE IF tag[i] = Quote THEN i
    ELSE IF tag[i] = "\n" THEN 0
    ELSE ClosingQuote(tag, i + 1)

\* regexp key='(.*?)' : FindAllStringSubmatch(tag, -1), the captured groups of
\* the leftmost non-overlapping matches, in order
RECURSIVE FindAllLazy(_, _, _)
FindAllLazy(tag, key, i) ==
    LET open == key \o << "=", Quote >>
        j    == ClosingQuote(tag, i + Len(open))
    IN  IF i + Len(open) > Len(tag) THEN << >>
        ELSE IF HasPrefixAt(tag, open, i) /\ j > 0
             THEN << SubSeq(tag, i + Len(open), j - 1) >> \o FindAllLazy(tag, key, j + 1)
             ELSE FindAllLazy(tag, key, i + 1)

\* regexp key='(.)' : exactly one character other than a newline between the quotes
RECURSIVE FindAllOne(_, _, _)
FindAllOne(tag, key, i) ==
    LET open == key \o << "=", Quote >>
        c    == i + Len(open)
    IN  IF c + 1 > Len(tag) THEN << >>
        ELSE IF HasPrefixAt(tag, open, i) /\ tag[c] # "\n" /\ tag[c + 1] = Quote
             THEN << << tag[c] >> >> \o FindAllOne(tag, key, c + 2)
             ELSE FindAllOne(tag, key, i + 1)

defaultRegex(tag)   == FindAllLazy(tag, W_default, 1)
\* separatorRegex as it would be with the pattern of the other clauses,
\* separator='(.*?)'
separatorRegexLazy(tag) == FindAllLazy(tag, W_separator, 1)

separatorRegex(tag) == FindAllOne(tag, W_separator, 1)
nameRegex(tag)      == FindAllLazy(tag, W_name, 1)
valuesRegex(tag)    == FindAllLazy(tag, W_values, 1)

\* isOptional as it would be if the letters were compared as written
isOptionalCased(tag) == Contains(tag, W_optional)

isOptional(tag) == Contains(ToLower(tag), W_optional)

hasDefault(tag) == Len(defaultRegex(tag)) > 0

getDefault(tag) == defaultRegex(tag)[1]

\* A panic is modelled as the result [panic |-> TRUE]; a normal return carries
\* the value in v.
Panic == [panic |-> TRUE, v |-> << >>]
Ret(x) == [panic |-> FALSE, v |-> x]

getSeparator(tag) ==
    LET m == separatorRegex(tag)
    IN  IF Len(m) = 0 THEN Ret(defaultSeparator)
        ELSE IF Len(m) # 1 THEN Panic
        ELSE Ret(m[1])

\* getName as it would be if the first of several name clauses were taken
getNameFirst(tag) ==
    LET m == nameRegex(tag)
    IN  IF Len(m) = 0 THEN Ret(<< >>)
        ELSE Ret(m[1])

getName(tag) ==
    LET m == nameRegex(tag)
    IN  IF Len(m) = 0 THEN Ret(<< >>)
        ELSE IF Len(m) # 1 THEN Panic
        ELSE Ret(m[1])

hasValues(tag) == Len(valuesRegex(tag)) > 0

\* the nil slice is the empty sequence
getValues(tag) ==
    LET m == valuesRegex(tag)
    IN  IF Len(m) = 0 THEN Ret(<< >>)
        ELSE IF Len(m) # 1 THEN Panic
        ELSE LET values == Split(m[1], << "," >>)
             IN  Ret([i \in 1..Len(values) |-> TrimSpace(values[i])])

(***************************************************************************)
(* Parsed values.  reflect.ValueOf(parsed) is a record with the dynamic    *)
(* type t and the payload v: the characters of a string, a boolean, the    *)
(* canonical decimal numeral of an int ("-" and digits, no leading zeros), *)
(* or the sequence of the elements of a []any.  reflect.Value{} (the zero  *)
(* Value) has t = "invalid".                                               *)
(***************************************************************************)
StringVal(s) == [t |-> "string", v |-> s]
BoolVal(b)   == [t |-> "bool", v |-> b]
IntVal(num)  == [t |-> "int", v |-> num]
SliceVal(xs) == [t |-> "slice", v |-> xs]
ZeroValue    == [t |-> "invalid", v |-> << >>]

\* a parser's pair of results (value, error)
Parsed(val, failed) == [val |-> val, err |-> failed]

(***************************************************************************)
(* Type: bool, src/bool.go.                                                *)
(***************************************************************************)
in(needle, haystack) == \E i \in 1..Len(haystack) : haystack[i] = needle

booleanValues == << <<"t","r","u","e">>, <<"f","a","l","s","e">>,
                    <<"y","e","s">>, <<"n","o">>, <<"1">>, <<"0">> >>

\* boolValidator as it would be if the literals were compared without regard
\* to case
boolValidatorFold(value) == ~ in(ToLower(value), booleanValues)

\* TRUE when the validator returns an error
boolValidator(value) == ~ in(value, booleanValues)

boolParser(value) ==
    LET ok     == boolValidator(value)
        casted == in(value, << <<"t","r","u","e">>, <<"y","e","s">>, <<"1">> >>)
    IN  Parsed(BoolVal(casted), ok)

(***************************************************************************)
(* Type: string.  string.go is not among the sources; the parser is the    *)
(* identity that TestStringParser (src/main.go) pins down.                 *)
(***************************************************************************)
stringParser(value) == Parsed(StringVal(value), FALSE)

(***************************************************************************)
(* Type: int.  int.go is not among the sources; the parser is strconv.Atoi *)
(* as src/int_test.go pins it down: an optional sign, decimal digits,      *)
(* leading zeros accepted, out of range an error with the nearest bound.   *)
(***************************************************************************)
IsDigit(c) == IndexIn(c, Digits) > 0
AllDigits(s) == \A i \in 1..Len(s) : IsDigit(s[i])

RECURSIVE StripZeros(_)
StripZeros(s) == IF Len(s) > 1 /\ s[1] = "0" THEN StripZeros(Tail(s)) ELSE s

MaxInt64Text == <<"9","2","2","3","3","7","2","0","3","6","8","5","4","7","7","5","8","0","7">>
MinInt64Mag  == <<"9","2","2","3","3","7","2","0","3","6","8","5","4","7","7","5","8","0","8">>

\* a <= b for two numerals without leading zeros
RECURSIVE DigitsLeq(_, _)
DigitsLeq(a, b) ==
    IF Len(a) # Len(b) THEN Len(a) < Len(b)
    ELSE IF Len(a) = 0 THEN TRUE
    ELSE IF a[1] # b[1] THEN IndexIn(a[1], Digits) < IndexIn(b[1], Digits)
    ELSE DigitsLeq(Tail(a), Tail(b))

intParser(value) ==
    LET signed == Len(value) > 0 /\ value[1] \in {"+", "-"}
        neg    == Len(value) > 0 /\ value[1] = "-"
        body   == IF signed THEN Tail(value) ELSE value
        mag    == StripZeros(body)
        limit  == IF neg THEN MinInt64Mag ELSE MaxInt64Text
    IN  IF Len(body) = 0 \/ ~ AllDigits(body) THEN Parsed(IntVal(<<"0">>), TRUE)
        ELSE IF ~ DigitsLeq(mag, limit)
             THEN Parsed(IntVal(IF neg THEN <<"-">> \o limit ELSE limit), TRUE)
        ELSE Parsed(IntVal(IF neg /\ mag # <<"0">> THEN <<"-">> \o mag ELSE mag), FALSE)

(***************************************************************************)
(* Type: IPv4, src/unnamed/part_003.                                       *)
(***************************************************************************)
\* one field of a dotted quad: 1 to 3 digits, no leading zero, at most 255
IsOctet(f) ==
    /\ Len(f) \in 1..3
    /\ AllDigits(f)
    /\ (Len(f) > 1 => f[1] # "0")
    /\ DigitsLeq(f, <<"2","5","5">>)

\* netip.parseIPv4Fields: four octets separated by '.'
IsDottedQuad(s) ==
    LET f == Split(s, << "." >>)
    IN  Len(f) = 4 /\ \A i \in 1..4 : IsOctet(f[i])

HexDigits == <<"0","1","2","3","4","5","6","7","8","9",
               "a","b","c","d","e","f","A","B","C","D","E","F">>
IsHex(c)    == IndexIn(c, HexDigits) > 0
\* the value of a hexadecimal (or decimal) digit
HexVal(c) == IndexIn(ToLowerChar(c), HexDigits) - 1
\* the value of a numeral in the given base
RECURSIVE NumValue(_, _)
NumValue(s, base) ==
    IF Len(s) = 0 THEN 0
    ELSE NumValue(SubSeq(s, 1, Len(s) - 1), base) * base + HexVal(s[Len(s)])
\* the number of hexadecimal digits s starts with
HexRun(s) ==
    IF \A i \in 1..Len(s) : IsHex(s[i]) THEN Len(s)
    ELSE (CHOOSE i \in 1..Len(s) : ~ IsHex(s[i]) /\ \A k \in 1..(i - 1) : IsHex(s[k])) - 1

\* a parsed address: its 16 bytes, or ok = FALSE
NoAddr == [ok |-> FALSE, ip |-> << >>]
Addr(ip) == [ok |-> TRUE, ip |-> ip]

\* netip.parseIPv4 and Addr.As16: the IPv4-mapped form of a dotted quad
parseIPv4(s) ==
    IF IsDottedQuad(s)
    THEN Addr(<<0, 0, 0, 0, 0, 0, 0, 0, 0, 0, 255, 255>>
              \o [i \in 1..4 |-> NumValue(Split(s, << "." >>)[i], 10)])
    ELSE NoAddr

\* netip.parseIPv6, after its loop: the text must be used up, and the
\* ellipsis (at byte position ellipsis, -1 when there is none) is expanded
parseIPv6End(s, ip, ellipsis) ==
    IF Len(s) # 0 THEN NoAddr
    ELSE IF Len(ip) < 16
         THEN IF ellipsis < 0 THEN NoAddr
              ELSE Addr(SubSeq(ip, 1, ellipsis) \o [k \in 1..(16 - Len(ip)) |-> 0]
                        \o SubSeq(ip, ellipsis + 1, Len(ip)))
         ELSE IF ellipsis >= 0 THEN NoAddr ELSE Addr(ip)

\* netip.parseIPv6, its loop: hexadecimal groups followed by colons, with an
\* embedded dotted quad allowed as the last four bytes
RECURSIVE parseIPv6Loop(_, _, _)
parseIPv6Loop(s, ip, ellipsis) ==
    LET Group(off) ==
            LET Saved(ip2, rest) ==
                    IF Len(rest) = 0 THEN parseIPv6End(<< >>, ip2, ellipsis)
                    ELSE IF rest[1] # ":" \/ Len(rest) = 1 THEN NoAddr
                    ELSE IF rest[2] = ":"
                         THEN IF ellipsis >= 0 THEN NoAddr
                              ELSE IF Len(rest) = 2 THEN parseIPv6End(<< >>, ip2, Len(ip2))
                              ELSE parseIPv6Loop(SubSeq(rest, 3, Len(rest)), ip2, Len(ip2))
                         ELSE parseIPv6Loop(Tail(rest), ip2, ellipsis)
                Bytes(acc) == << acc \div 256, acc % 256 >>
            IN  IF off > 4 \/ off = 0 THEN NoAddr
                ELSE IF off < Len(s) /\ s[off + 1] = "."
                     THEN IF (ellipsis < 0 /\ Len(ip) # 12) \/ Len(ip) + 4 > 16 \/ ~ IsDottedQuad(s)
                          THEN NoAddr
                          ELSE parseIPv6End(<< >>, ip \o SubSeq(parseIPv4(s).ip, 13, 16), ellipsis)
                     ELSE Saved(ip \o Bytes(NumValue(SubSeq(s, 1, off), 16)),
                                SubSeq(s, off + 1, Len(s)))
    IN  IF Len(ip) >= 16 THEN parseIPv6End(s, ip, ellipsis)
        ELSE Group(HexRun(s))

\* netip.parseIPv6 as net.ParseIP uses it: a zone ('%') is refused
parseIPv6(s) ==
    IF \E i \in 1..Len(s) : s[i] = "%" THEN NoAddr
    ELSE IF HasPrefixAt(s, <<":", ":">>, 1)
         THEN IF Len(s) = 2 THEN Addr([k \in 1..16 |-> 0])
              ELSE parseIPv6Loop(SubSeq(s, 3, Len(s)), << >>, 0)
         ELSE parseIPv6Loop(s, << >>, -1)

\* net.ParseIP, over netip.ParseAddr: the first of '.', ':' and '%' decides
ParseIP(s) ==
    LET Marks == {i \in 1..Len(s) : s[i] \in {".", ":", "%"}}
        First == CHOOSE i \in Marks : \A k \in Marks : i <= k
    IN  IF Marks = {} THEN NoAddr
        ELSE IF s[First] = "." THEN parseIPv4(s)
        ELSE IF s[First] = ":" THEN parseIPv6(s)
        ELSE NoAddr

\* net.IP.To4 is not nil: the address is an IPv4-mapped one
To4(ip) == (\A k \in 1..10 : ip[k] = 0) /\ ip[11] = 255 /\ ip[12] = 255

\* TRUE when the validator returns an error: net.ParseIP(value) is nil, or its
\* To4() is nil
ipv4Validator(value) ==
    LET Check(ip) == ~ ip.ok \/ ~ To4(ip.ip)
    IN  Check(ParseIP(value))

ipv4Parser(value) ==
    LET ok == ipv4Validator(value)
    IN  IF ok THEN Parsed(StringVal(<< >>), TRUE) ELSE Parsed(StringVal(value), FALSE)

(***************************************************************************)
(* Type: URL and HTTPURL, src/tags.go lines 135-197, over net/url's        *)
(* ParseRequestURI.                                                        *)
(***************************************************************************)
IsLetter(c) == IndexIn(c, Lowers) > 0 \/ IndexIn(c, Uppers) > 0

\* the control characters of the modelled alphabet
ContainsCTL(s) == \E i \in 1..Len(s) : s[i] \in {"\t", "\n", "\r"}

\* strings.Index, 0 when c does not occur
FirstIndex(s, c) ==
    IF \E i \in 1..Len(s) : s[i] = c
    THEN CHOOSE i \in 1..Len(s) : s[i] = c /\ \A k \in 1..(i - 1) : s[k] # c
    ELSE 0
\* strings.LastIndex, 0 when c does not occur
LastIndex(s, c) ==
    IF \E i \in 1..Len(s) : s[i] = c
    THEN CHOOSE i \in 1..Len(s) : s[i] = c /\ \A k \in (i + 1)..Len(s) : s[k] # c
    ELSE 0
Count(s, c) == Cardinality({i \in 1..Len(s) : s[i] = c})

\* net/url getScheme: [err, scheme, rest]
RECURSIVE getScheme(_, _)
getScheme(rawURL, i) ==
    IF i > Len(rawURL) THEN [err |-> FALSE, scheme |-> << >>, rest |-> rawURL]
    ELSE IF IsLetter(rawURL[i]) THEN getScheme(rawURL, i + 1)
    ELSE IF IsDigit(rawURL[i]) \/ rawURL[i] \in {"+", "-", "."}
         THEN IF i = 1 THEN [err |-> FALSE, scheme |-> << >>, rest |-> rawURL]
              ELSE getScheme(rawURL, i + 1)
    ELSE IF rawURL[i] = ":"
         THEN IF i = 1 THEN [err |-> TRUE, scheme |-> << >>, rest |-> << >>]
              ELSE [err |-> FALSE, scheme |-> SubSeq(rawURL, 1, i - 1),
                    rest |-> SubSeq(rawURL, i + 1, Len(rawURL))]
    ELSE [err |-> FALSE, scheme |-> << >>, rest |-> rawURL]

\* net/url validOptionalPort
validOptionalPort(port) ==
    \/ Len(port) = 0
    \/ port[1] = ":" /\ AllDigits(Tail(port))

\* every '%' is followed by two hexadecimal digits
ValidEscapes(s) ==
    \A i \in 1..Len(s) :
        s[i] = "%" => i + 2 <= Len(s) /\ IsHex(s[i + 1]) /\ IsHex(s[i + 2])

\* characters net/url accepts unescaped in a host name
HostChar(c) ==
    \/ IsLetter(c) \/ IsDigit(c)
    \/ c \in {"-", "_", ".", "~", "!", "$", "&", "'", "(", ")", "*", "+", ",",
              ";", "=", ":", "[", "]", "<", ">", "\"", "%"}

\* net/url parseHost: TRUE when it returns an error
parseHostFails(host) ==
    LET rb == LastIndex(host, "]")
        lc == LastIndex(host, ":")
    IN  \/ /\ Len(host) > 0 /\ host[1] = "["
           /\ \/ rb = 0
              \/ ~ validOptionalPort(SubSeq(host, rb + 1, Len(host)))
        \/ /\ ~ (Len(host) > 0 /\ host[1] = "[")
           /\ lc > 0
           /\ ~ validOptionalPort(SubSeq(host, lc, Len(host)))
        \/ ~ ValidEscapes(host)
        \/ \E i \in 1..Len(host) : ~ HostChar(host[i])

UserinfoChar(c) ==
    \/ IsLetter(c) \/ IsDigit(c)
    \/ c \in {"-", ".", "_", ":", "~", "!", "$", "&", "'", "(", ")", "*", "+",
              ",", ";", "=", "%", "@"}

\* net/url parseAuthority: TRUE when it returns an error
parseAuthorityFails(authority) ==
    LET at == LastIndex(authority, "@")
        userinfo == SubSeq(authority, 1, at - 1)
    IN  \/ parseHostFails(SubSeq(authority, at + 1, Len(authority)))
        \/ /\ at > 0
           /\ \/ \E i \in 1..Len(userinfo) : ~ UserinfoChar(userinfo[i])
              \/ ~ ValidEscapes(userinfo)

\* url.ParseRequestURI: [err, scheme]
ParseRequestURI(rawURL) ==
    LET gs     == getScheme(rawURL, 1)
        scheme == ToLower(gs.scheme)
        q      == FirstIndex(gs.rest, "?")
        rest   == IF q = 0 THEN gs.rest ELSE SubSeq(gs.rest, 1, q - 1)
        auth   == SubSeq(rest, 3, Len(rest))
        slash  == FirstIndex(auth, "/")
        authority == IF slash = 0 THEN auth ELSE SubSeq(auth, 1, slash - 1)
        path   == IF Len(scheme) > 0 /\ HasPrefixAt(rest, <<"/", "/">>, 1)
                  THEN (IF slash = 0 THEN << >> ELSE SubSeq(auth, slash, Len(auth)))
                  ELSE rest
        fail   == [err |-> TRUE, scheme |-> << >>]
    IN  IF ContainsCTL(rawURL) THEN fail
        ELSE IF Len(rawURL) = 0 THEN fail
        ELSE IF rawURL = << "*" >> THEN [err |-> FALSE, scheme |-> << >>]
        ELSE IF gs.err THEN fail
        ELSE IF ~ HasPrefixAt(rest, << "/" >>, 1)
             THEN (IF Len(scheme) > 0 THEN [err |-> FALSE, scheme |-> scheme] ELSE fail)
        ELSE IF Len(scheme) > 0 /\ HasPrefixAt(rest, <<"/", "/">>, 1)
                /\ parseAuthorityFails(authority) THEN fail
        ELSE IF ~ ValidEscapes(path) THEN fail
        ELSE [err |-> FALSE, scheme |-> scheme]

urlValidator(value) ==
    LET originalValue == TrimSpace(value)
    IN  IF Len(originalValue) = 0 THEN [err |-> TRUE, scheme |-> << >>]
        ELSE ParseRequestURI(originalValue)

urlParser(value) ==
    IF urlValidator(value).err THEN Parsed(StringVal(<< >>), TRUE)
    ELSE Parsed(StringVal(value), FALSE)

\* httpURLValidator as it would be if every scheme were accepted
httpURLValidatorAnyScheme(value) ==
    LET Check(u) == u.err
    IN  Check(urlValidator(value))

\* TRUE when the validator returns an error
httpURLValidator(value) ==
    LET Check(u) == \/ u.err
                    \/ u.scheme # <<"h","t","t","p">> /\ u.scheme # <<"h","t","t","p","s">>
    IN  Check(urlValidator(value))

httpURLParser(value) ==
    IF httpURLValidator(value) THEN Parsed(StringVal(<< >>), TRUE)
    ELSE Parsed(StringVal(value), FALSE)

(***************************************************************************)
(* reflect.Type.  A type is [kind, name, elem, elemKind, fields]: its      *)
(* Kind(), its Name(), for a slice the name and kind of its Elem(), for a  *)
(* struct its fields [Name, Type, Tag] in declaration order.               *)
(***************************************************************************)
N_string  == <<"s","t","r","i","n","g">>
N_int     == <<"i","n","t">>
N_bool    == <<"b","o","o","l">>
N_IPv4    == <<"I","P","v","4">>
N_float64 == <<"f","l","o","a","t","6","4">>

Scalar(kind, name) ==
    [kind |-> kind, name |-> name, elem |-> << >>, elemKind |-> "invalid", fields |-> << >>]
SliceOf(t) ==
    [kind |-> "slice", name |-> << >>, elem |-> t.name, elemKind |-> t.kind, fields |-> << >>]
Struct(fields) ==
    [kind |-> "struct", name |-> << >>, elem |-> << >>, elemKind |-> "invalid", fields |-> fields]

T_string  == Scalar("string", N_string)
T_int     == Scalar("int", N_int)
T_bool    == Scalar("bool", N_bool)
T_IPv4    == Scalar("string", N_IPv4)        \* type IPv4 string
T_float64 == Scalar("float64", N_float64)

\* field.Type.Elem() of a slice type
Elem(t) == Scalar(t.elemKind, t.elem)

Field(name, type, tag) == [Name |-> name, Type |-> type, Tag |-> tag]

\* the zero value of a type, as the payload of a Go value
Zero(t) ==
    CASE t.kind = "string"  -> << >>
      [] t.kind = "bool"    -> FALSE
      [] t.kind = "int"     -> << "0" >>
      [] t.kind = "float64" -> << "0" >>
      [] OTHER              -> << >>      \* the nil slice

\* `var zero T` and reflect.New(T).Elem(): every field at its zero value
ZeroInstance(t) == [n \in 1..Len(t.fields) |-> Zero(t.fields[n].Type)]

(***************************************************************************)
(* src/main.go: parseVariable, validateAndParseSlice, Validate.            *)
(***************************************************************************)
\* parseVariable as it would be if an unknown type identifier were an
\* ordinary coercion failure
parseVariableLenient(fieldName, fieldType, value) ==
    LET normalizedFieldType == ToLower(fieldType)
    IN  CASE normalizedFieldType = N_bool   -> Ret(boolParser(value))
          [] normalizedFieldType = N_string -> Ret(stringParser(value))
          [] normalizedFieldType = <<"i","p","v","4">> -> Ret(ipv4Parser(value))
          [] normalizedFieldType = N_int    -> Ret(intParser(value))
          [] normalizedFieldType = <<"u","r","l">> -> Ret(urlParser(value))
          [] normalizedFieldType = <<"h","t","t","p","u","r","l">> -> Ret(httpURLParser(value))
          [] OTHER -> Ret(Parsed(StringVal(<< >>), TRUE))

parseVariable(fieldName, fieldType, value) ==
    LET normalizedFieldType == ToLower(fieldType)
    IN  CASE normalizedFieldType = N_bool   -> Ret(boolParser(value))
          [] normalizedFieldType = N_string -> Ret(stringParser(value))
          [] normalizedFieldType = <<"i","p","v","4">> -> Ret(ipv4Parser(value))
          [] normalizedFieldType = N_int    -> Ret(intParser(value))
          [] normalizedFieldType = <<"u","r","l">> -> Ret(urlParser(value))
          [] normalizedFieldType = <<"h","t","t","p","u","r","l">> -> Ret(httpURLParser(value))
          [] OTHER -> Panic

\* validateAndParseSlice as it would be if the elements that fail were left
\* out of the list and the others kept
validateAndParseSliceKeep(fieldName, fieldType, value, sep) ==
    LET Each(pieces) == [i \in 1..Len(pieces) |-> parseVariable(fieldName, fieldType, pieces[i])]
        Collect(rs)  ==
            IF \E i \in 1..Len(rs) : rs[i].panic THEN Panic
            ELSE Ret(Parsed(SliceVal([i \in 1..Len(SelectSeq(rs, LAMBDA r : ~ r.v.err)) |->
                                         SelectSeq(rs, LAMBDA r : ~ r.v.err)[i].v.val]),
                            FALSE))
    IN  Collect(Each(Split(value, sep)))

validateAndParseSlice(fieldName, fieldType, value, sep) ==
    LET Each(pieces) == [i \in 1..Len(pieces) |-> parseVariable(fieldName, fieldType, pieces[i])]
        Collect(rs)  ==
            IF \E i \in 1..Len(rs) : rs[i].panic THEN Panic
            ELSE Ret(Parsed(SliceVal([i \in 1..Len(rs) |-> rs[i].v.val]),
                            \E i \in 1..Len(rs) : rs[i].v.err))
    IN  Collect(Each(Split(value, sep)))

\* os.Getenv: the value of the variable, empty when it is not set
Getenv(environ, name) == IF name \in DOMAIN environ THEN environ[name] ELSE << >>

getEnvVarNameFromField(field) ==
    LET name == getName(field.Tag)
    IN  IF name.panic THEN Panic
        ELSE IF Len(name.v) = 0 THEN Ret(field.Name) ELSE name

\* fmt.Sprintf("%s (%s)", field.Name, name)
Label(fieldName, name) == fieldName \o << " ", "(" >> \o name \o << ")" >>

\* envVarType
EnvVar(value, kind) == [Value |-> value, Type |-> kind]

\* The locals of Validate: the lists, the map under construction, whether the
\* call has panicked, and (for the record) the fields it has tried to coerce.
ValidateStart ==
    [panic |-> FALSE, missing |-> << >>, invalid |-> << >>,
     environment |-> << >>, coerced |-> << >>]

\* the map with key k set to x
Put(m, k, x) == (k :> x) @@ m

\* lines 205-234: coercion of the raw value and the record of its outcome
CoerceField(field, name, value, st) ==
    LET kind  == field.Type.kind
        sep   == getSeparator(field.Tag)
        tried == [st EXCEPT !.coerced = Append(@, field.Name)]
        Record(r) ==
            IF r.panic THEN [tried EXCEPT !.panic = TRUE]
            ELSE IF r.v.err
                 THEN [tried EXCEPT !.invalid =
                           Append(@, [name |-> Label(field.Name, name), value |-> value])]
                 ELSE [tried EXCEPT !.environment = Put(@, field.Name, EnvVar(r.v.val, kind))]
    IN  Record(IF kind = "slice"
               THEN (IF sep.panic THEN Panic
                     ELSE validateAndParseSlice(field.Name, field.Type.elem, value, sep.v))
               ELSE parseVariable(field.Name, field.Type.name, value))

\* ValidateField as it was in the earlier version of Validate
\* (src/unnamed/part_001 lines 91-105): a required field without a value is
\* added to the missing list and coerced all the same
ValidateFieldOld(field, environ, st) ==
    LET nm       == getEnvVarNameFromField(field)
        name     == ToUpper(nm.v)
        value    == Getenv(environ, name)
        optional == isOptional(field.Tag)
    IN  IF nm.panic THEN [st EXCEPT !.panic = TRUE]
        ELSE IF Len(value) = 0 /\ optional
             THEN IF hasDefault(field.Tag)
                  THEN CoerceField(field, name, getDefault(field.Tag), st)
                  ELSE [st EXCEPT !.environment =
                            Put(@, field.Name, EnvVar(ZeroValue, field.Type.kind))]
        ELSE IF Len(value) = 0
             THEN CoerceField(field, name, value,
                              [st EXCEPT !.missing = Append(@, Label(field.Name, name))])
        ELSE CoerceField(field, name, value, st)

\* ValidateField as it would be without the `continue` of line 194: an optional
\* field with no value and no default goes on to coercion
ValidateFieldNoSkip(field, environ, st) ==
    LET nm       == getEnvVarNameFromField(field)
        name     == ToUpper(nm.v)
        value    == Getenv(environ, name)
        optional == isOptional(field.Tag)
    IN  IF nm.panic THEN [st EXCEPT !.panic = TRUE]
        ELSE IF Len(value) = 0 /\ ~ optional
             THEN [st EXCEPT !.missing = Append(@, Label(field.Name, name))]
        ELSE IF Len(value) = 0 /\ hasDefault(field.Tag)
             THEN CoerceField(field, name, getDefault(field.Tag), st)
        ELSE CoerceField(field, name, value, st)

\* ValidateField as it would be if the default of an optional field were taken
\* without looking at the environment value first
ValidateFieldDefaultFirst(field, environ, st) ==
    LET nm       == getEnvVarNameFromField(field)
        name     == ToUpper(nm.v)
        value    == Getenv(environ, name)
        optional == isOptional(field.Tag)
    IN  IF nm.panic THEN [st EXCEPT !.panic = TRUE]
        ELSE IF optional /\ hasDefault(field.Tag)
             THEN CoerceField(field, name, getDefault(field.Tag), st)
        ELSE IF Len(value) = 0
             THEN IF optional
                  THEN [st EXCEPT !.environment =
                            Put(@, field.Name, EnvVar(ZeroValue, field.Type.kind))]
                  ELSE [st EXCEPT !.missing = Append(@, Label(field.Name, name))]
        ELSE CoerceField(field, name, value, st)

\* lines 176-234: the body of the loop, for one field
ValidateField(field, environ, st) ==
    LET nm       == getEnvVarNameFromField(field)
        optional == isOptional(field.Tag)
        Step(name, value) ==
            IF Len(value) = 0 /\ optional /\ ~ hasDefault(field.Tag)
            THEN [st EXCEPT !.environment =
                      Put(@, field.Name, EnvVar(ZeroValue, field.Type.kind))]
            ELSE IF Len(value) = 0 /\ ~ optional
            THEN [st EXCEPT !.missing = Append(@, Label(field.Name, name))]
            ELSE CoerceField(field, name,
                             IF Len(value) = 0 THEN getDefault(field.Tag) ELSE value, st)
        Look(name) == Step(name, Getenv(environ, name))
    IN  IF nm.panic THEN [st EXCEPT !.panic = TRUE]
        ELSE Look(ToUpper(nm.v))

\* ValidateLoop as it would be if the scan stopped at the first failure
RECURSIVE ValidateLoopStop(_, _, _, _)
ValidateLoopStop(t, environ, n, st) ==
    IF st.panic \/ n > Len(t.fields) \/ Len(st.missing) + Len(st.invalid) > 0 THEN st
    ELSE ValidateLoopStop(t, environ, n + 1, ValidateField(t.fields[n], environ, st))

\* lines 175-235: the loop over the fields, from field n on
RECURSIVE ValidateLoop(_, _, _, _)
ValidateLoop(t, environ, n, st) ==
    IF st.panic \/ n > Len(t.fields) THEN st
    ELSE ValidateLoop(t, environ, n + 1, ValidateField(t.fields[n], environ, st))

\* Validate's results and the map it leaves in envMap; panic when it panics
Validate(variables, environ) ==
    IF variables.kind # "struct" THEN [ValidateStart EXCEPT !.panic = TRUE]
    ELSE ValidateLoop(variables, environ, 1, ValidateStart)

(***************************************************************************)
(* src/main.go: Assert, after its call of Validate (lines 27-113).         *)
(***************************************************************************)
\* reflect.Type.ConvertibleTo, from the dynamic type of a parsed value
ConvertibleTo(dyn, t) ==
    \/ dyn = t.kind /\ dyn \in {"string", "int", "bool"}
    \/ dyn = "int" /\ t.kind \in {"string", "float64"}

\* reflect.Value.Convert: the payload in the target type; an int converted to
\* a string type is the one-rune string of that code point
Convert(value, t) ==
    IF value.t = "int" /\ t.kind = "string" THEN << [rune |-> value.v] >> ELSE value.v

\* lines 55-90: one element of the slice
BindElem(fieldName, elemType, elem) ==
    LET SetParsed(r) ==
            IF r.panic THEN Panic
            ELSE IF ~ r.v.err /\ ConvertibleTo(r.v.val.t, elemType)
                 THEN Ret(Convert(r.v.val, elemType))
                 ELSE Panic            \* Set of a value of another type
    IN  IF ConvertibleTo(elem.t, elemType) THEN Ret(Convert(elem, elemType))
        ELSE IF elem.t = "string"
             THEN SetParsed(parseVariable(fieldName, elemType.name, elem.v))
             ELSE Panic                \* Set of a value of another type

\* lines 44-109: the value of one field of the result
BindField(field, em) ==
    LET SetSlice(es) ==
            IF \E i \in 1..Len(es) : es[i].panic THEN Panic
            ELSE Ret([i \in 1..Len(es) |-> es[i].v])
        SetField(envVar) ==
            IF envVar.Type = "slice"
            THEN IF envVar.Value.t = "slice"
                 THEN IF field.Type.kind # "slice" THEN Panic    \* reflect.MakeSlice
                      ELSE SetSlice([i \in 1..Len(envVar.Value.v) |->
                                        BindElem(field.Name, Elem(field.Type), envVar.Value.v[i])])
                 ELSE Ret(Zero(field.Type))
            ELSE IF envVar.Value.t = "invalid" THEN Panic  \* Value.Type of the zero Value
            ELSE IF ConvertibleTo(envVar.Value.t, field.Type)
                 THEN Ret(Convert(envVar.Value, field.Type))
                 ELSE Panic            \* Set of a value of another type
    IN  IF field.Name \notin DOMAIN em THEN Ret(Zero(field.Type))
        ELSE SetField(em[field.Name])

\* lines 43-110: the loop over the fields of the result
Bind(t, em) ==
    LET Populate(fs) ==
            IF \E n \in 1..Len(fs) : fs[n].panic THEN Panic
            ELSE Ret([n \in 1..Len(fs) |-> fs[n].v])
    IN  Populate([n \in 1..Len(t.fields) |-> BindField(t.fields[n], em)])

\* what a call gives back: kind is "ok" (nil error), "error" or "panic"
Outcome(kind, instance, errors) == [kind |-> kind, instance |-> instance, errors |-> errors]
NoOutcome == Outcome("none", << >>, << >>)

\* ErrorLines as it would be if the invalid list were reported first
ErrorLinesInvalidFirst(missing, invalid) ==
    (IF Len(invalid) > 0
     THEN << [line |-> "Invalid",
              labels |-> [i \in 1..Len(invalid) |-> invalid[i].name],
              values |-> [i \in 1..Len(invalid) |-> invalid[i].value]] >>
     ELSE << >>)
    \o (IF Len(missing) > 0
        THEN << [line |-> "Missing", labels |-> missing, values |-> << >>] >>
        ELSE << >>)

\* lines 27-33: the lines of the error, one per non-empty list; a line carries
\* the labels of its list and, for the invalid list, the offending values
ErrorLines(missing, invalid) ==
    (IF Len(missing) > 0
     THEN << [line |-> "Missing", labels |-> missing, values |-> << >>] >>
     ELSE << >>)
    \o (IF Len(invalid) > 0
        THEN << [line |-> "Invalid",
                 labels |-> [i \in 1..Len(invalid) |-> invalid[i].name],
                 values |-> [i \in 1..Len(invalid) |-> invalid[i].value]] >>
        ELSE << >>)

\* fmt's %v of a []string and of a []invalidType: the elements between
\* brackets, separated by a space, a struct as its fields between braces
Bracket(elems) == << "[" >> \o Join(elems, << " " >>) \o << "]" >>
Brace(name, value) == << "{" >> \o name \o << " " >> \o value \o << "}" >>

\* lines 29, 32 and 37: the text of the error, its lines joined by a newline
ErrorText(errors) ==
    LET Render(e) ==
            IF e.line = "Missing"
            THEN <<"M","i","s","s","i","n","g",":"," ">> \o Bracket(e.labels)
            ELSE <<"I","n","v","a","l","i","d",":"," ">>
                 \o Bracket([i \in 1..Len(e.labels) |-> Brace(e.labels[i], e.values[i])])
    IN  Join([i \in 1..Len(errors) |-> Render(errors[i])], << "\n" >>)

\* AssertResult as it would be if the instance were populated before the
\* error is returned
AssertResultPartial(t, missing, invalid, em) ==
    LET errors == ErrorLines(missing, invalid)
        result == Bind(t, em)
    IN  IF result.panic THEN Outcome("panic", << >>, << >>)
        ELSE IF Len(errors) > 0 THEN Outcome("error", result.v, errors)
        ELSE Outcome("ok", result.v, << >>)

\* lines 27-113: from the lists Validate returned and the envMap read
AssertResult(t, missing, invalid, em) ==
    LET Fail(errors) == Outcome("error", ZeroInstance(t), errors)
        Done(result) == IF result.panic THEN Outcome("panic", << >>, << >>)
                        ELSE Outcome("ok", result.v, << >>)
    IN  IF Len(missing) + Len(invalid) > 0 THEN Fail(ErrorLines(missing, invalid))
        ELSE Done(Bind(t, em))

(***************************************************************************)
(* The inputs: the struct types passed to Validate and Assert, and the     *)
(* values the environment variables take.                                  *)
(***************************************************************************)
Comma == << "," >>
Clause(key, val) == key \o << "=", Quote >> \o val \o << Quote >>

V_8080  == <<"8","0","8","0">>
V_9000  == <<"9","0","0","0">>
V_3000  == <<"3","0","0","0">>
V_db    == <<"d","b">>
V_ip1   == <<"1","0",".","0",".","0",".","1">>
V_ip2   == <<"1","0",".","0",".","0",".","2">>
V_yes   == <<"y","e","s">>
V_maybe == <<"m","a","y","b","e">>

K_PORT    == <<"P","O","R","T">>
K_DB_HOST == <<"D","B","_","H","O","S","T">>
K_IPS     == <<"I","P","S">>
K_DEBUG   == <<"D","E","B","U","G">>

F_Host  == <<"H","o","s","t">>
F_Port  == <<"P","o","r","t">>
F_Debug == <<"D","e","b","u","g">>
F_IPs   == <<"I","P","s">>
F_Addr  == <<"A","d","d","r">>
F_Rate  == <<"R","a","t","e">>

\* struct { Host string `env:"required,name='db_host'"`
\*          Port int    `env:"optional,default='8080'"` }
ServerConfig == Struct(<<
    Field(F_Host, T_string, W_required \o Comma \o Clause(W_name, <<"d","b","_","h","o","s","t">>)),
    Field(F_Port, T_int, W_optional \o Comma \o Clause(W_default, V_8080)) >>)

\* struct { Port  int  `env:"values='8000,8080',default='8080'"`
\*          Debug bool `env:"required"` }
ValuesConfig == Struct(<<
    Field(F_Port, T_int, Clause(W_values, <<"8","0","0","0",",","8","0","8","0">>)
                         \o Comma \o Clause(W_default, V_8080)),
    Field(F_Debug, T_bool, W_required) >>)

\* struct { Port int    `env:"optional"`
\*          IPs  []IPv4 `env:"optional,separator=','"` }
OptionalConfig == Struct(<<
    Field(F_Port, T_int, W_optional),
    Field(F_IPs, SliceOf(T_IPv4), W_optional \o Comma \o Clause(W_separator, Comma)) >>)

\* struct { IPs  []IPv4 `env:"optional,separator=',',default='10.0.0.1,10.0.0.2'"`
\*          Addr IPv4   `env:"required,name='DB_HOST'"` }
SliceConfig == Struct(<<
    Field(F_IPs, SliceOf(T_IPv4), W_optional \o Comma \o Clause(W_separator, Comma)
                                  \o Comma \o Clause(W_default, V_ip1 \o Comma \o V_ip2)),
    Field(F_Addr, T_IPv4, W_required \o Comma \o Clause(W_name, K_DB_HOST)) >>)

\* struct { Rate  float64 `env:"optional,name='PORT'"`
\*          Debug bool    `env:"optional,default='yes'"` }
RateConfig == Struct(<<
    Field(F_Rate, T_float64, W_optional \o Comma \o Clause(W_name, K_PORT)),
    Field(F_Debug, T_bool, W_optional \o Comma \o Clause(W_default, V_yes)) >>)

\* struct { Port int `env:"optional,default='9000'"` }
AltConfig == Struct(<< Field(F_Port, T_int, W_optional \o Comma \o Clause(W_default, V_9000)) >>)

\* struct { Port  int  `env:"optional,values='8000,8080',default='3000'"`
\*          Debug bool `env:"optional,default='maybe'"` }
DefaultsConfig == Struct(<<
    Field(F_Port, T_int, W_optional \o Comma
                         \o Clause(W_values, <<"8","0","0","0">> \o Comma \o V_8080)
                         \o Comma \o Clause(W_default, V_3000)),
    Field(F_Debug, T_bool, W_optional \o Comma \o Clause(W_default, V_maybe)) >>)

\* struct { IPs   []string `env:"required"`
\*          Debug bool     `env:"required,Optional,default='yes'"` }
ListConfig == Struct(<<
    Field(F_IPs, SliceOf(T_string), W_required),
    Field(F_Debug, T_bool, W_required \o Comma \o <<"O","p","t","i","o","n","a","l">>
                           \o Comma \o Clause(W_default, V_yes)) >>)

\* struct { Port int    `env:"optional,default='8080',default='3000'"`
\*          Host string `env:"optional,separator=',',separator='|',values='a',values='b'"` }
DuplicateConfig == Struct(<<
    Field(F_Port, T_int, W_optional \o Comma \o Clause(W_default, V_8080)
                         \o Comma \o Clause(W_default, V_3000)),
    Field(F_Host, T_string, W_optional \o Comma \o Clause(W_separator, Comma)
                            \o Comma \o Clause(W_separator, << "|" >>)
                            \o Comma \o Clause(W_values, << "a" >>)
                            \o Comma \o Clause(W_values, << "b" >>)) >>)

\* the types the callers pass; the seventh is not a struct
Schemas == << ServerConfig, ValuesConfig, OptionalConfig, SliceConfig, RateConfig,
              AltConfig, T_string, DefaultsConfig, ListConfig, DuplicateConfig >>

EnvKeys == {K_PORT, K_DB_HOST, K_IPS, K_DEBUG}

\* the values each variable takes; the empty text is the unset variable
EnvValues(k) ==
    CASE k = K_PORT    -> {<< >>, V_8080, V_3000}
      [] k = K_DB_HOST -> {<< >>, V_db, V_ip1}
      [] k = K_IPS     -> {<< >>, V_ip1 \o Comma \o V_ip2, V_ip1 \o Comma \o <<"x">>}
      [] k = K_DEBUG   -> {<< >>, V_yes, V_maybe}

Envs == {e \in [EnvKeys -> UNION {EnvValues(k) : k \in EnvKeys}] :
            \A k \in EnvKeys : e[k] \in EnvValues(k)}

(***************************************************************************)
(* The state: the process environment, the package variable envMap, and    *)
(* for every caller the call it is in or has last finished.                *)
(***************************************************************************)
\* Validate of every argument in every environment, tabulated once
ValidateOf ==
    [te \in (1..Len(Schemas)) \X Envs |-> Validate(Schemas[te[1]], te[2])] @@ << >>

\* the goroutines that call the package
NumProcs == 2
Procs == 1..NumProcs
\* the goroutine of sequential use: the first one
Main == CHOOSE p \in Procs : \A q \in Procs : p <= q

\* changed: the environment was changed since the last call began;
\* repeated: the call last begun had the operation and the argument of the
\* call before it, by the same caller, with the environment unchanged between
VARIABLES env, envMap, call, changed, repeated
vars == << env, envMap, call, changed, repeated >>

\* a call: its operation, its argument (an index of Schemas), the stage it is
\* at, what its Validate returned (val) and what the call returned (out)
Call(op, t, stage, val, out) == [op |-> op, t |-> t, stage |-> stage, val |-> val, out |-> out]
NoCall == Call("none", 0, "idle", ValidateStart, NoOutcome)

Init ==
    /\ env \in Envs
    /\ envMap = << >>                 \* var envMap envMapType: the nil map
    /\ call = [p \in Procs |-> NoCall]
    /\ changed = FALSE
    /\ repeated = FALSE

Idle(p) == call[p].stage \in {"idle", "returned", "panicked"}

Repeats(p, op, t) == ~ changed /\ call[p].op = op /\ call[p].t = t

\* os.Setenv(k, v), by the surrounding program
Setenv(k, v) ==
    /\ \A p \in Procs : Idle(p)
    /\ env[k] # v
    /\ env' = [env EXCEPT ![k] = v]
    /\ changed' = TRUE
    /\ UNCHANGED << envMap, call, repeated >>

\* ValidateCall as it would be if Validate added its outcomes to the envMap
\* it found
ValidateCallKeep(p, t) ==
    LET Return(val) ==
            /\ call' = [call EXCEPT ![p] =
                   Call("Validate", t, IF val.panic THEN "panicked" ELSE "returned", val,
                        Outcome(IF val.panic THEN "panic" ELSE "ok", << >>, << >>))]
            /\ envMap' = IF val.panic THEN envMap ELSE val.environment @@ envMap
    IN  /\ \A q \in Procs : Idle(q)
        /\ Return(ValidateOf[<< t, env >>])
        /\ changed' = FALSE
        /\ repeated' = Repeats(p, "Validate", t)
        /\ UNCHANGED env

\* Validate(Schemas[t]), from its first line to its return or panic
ValidateCall(p, t) ==
    LET Return(val) ==
            /\ call' = [call EXCEPT ![p] =
                   Call("Validate", t, IF val.panic THEN "panicked" ELSE "returned", val,
                        Outcome(IF val.panic THEN "panic" ELSE "ok", << >>, << >>))]
            /\ envMap' = IF val.panic THEN envMap ELSE val.environment
    IN  /\ \A q \in Procs : Idle(q)
        /\ Return(ValidateOf[<< t, env >>])
        /\ changed' = FALSE
        /\ repeated' = Repeats(p, "Validate", t)
        /\ UNCHANGED env

\* src/main.go lines 24-113, from the results of its Validate and the envMap it reads
AssertFinish(t, val, em) ==
    IF val.panic THEN Outcome("panic", << >>, << >>)
    ELSE AssertResult(Schemas[t], val.missing, val.invalid, em)

\* AssertCall as it would be if the instance were populated from the envMap
\* found at the start of the call
AssertCallStale(p, t) ==
    LET Return(val, out) ==
            /\ call' = [call EXCEPT ![p] =
                   Call("Assert", t, IF out.kind = "panic" THEN "panicked" ELSE "returned",
                        val, out)]
            /\ envMap' = IF val.panic THEN envMap ELSE val.environment
        Run(val) == Return(val, AssertFinish(t, val, envMap))
    IN  /\ \A q \in Procs : Idle(q)
        /\ Run(ValidateOf[<< t, env >>])
        /\ changed' = FALSE
        /\ repeated' = Repeats(p, "Assert", t)
        /\ UNCHANGED env

\* Assert(Schemas[t]) with no other call in between
AssertCall(p, t) ==
    LET Return(val, out) ==
            /\ call' = [call EXCEPT ![p] =
                   Call("Assert", t, IF out.kind = "panic" THEN "panicked" ELSE "returned",
                        val, out)]
            /\ envMap' = IF val.panic THEN envMap ELSE val.environment
        Run(val) ==
            Return(val, AssertFinish(t, val, IF val.panic THEN envMap ELSE val.environment))
    IN  /\ \A q \in Procs : Idle(q)
        /\ Run(ValidateOf[<< t, env >>])
        /\ changed' = FALSE
        /\ repeated' = Repeats(p, "Assert", t)
        /\ UNCHANGED env

Next ==
    \/ \E k \in EnvKeys : \E v \in EnvValues(k) : Setenv(k, v)
    \/ \E t \in 1..Len(Schemas) : ValidateCall(Main, t)
    \/ \E t \in 1..Len(Schemas) : AssertCall(Main, t)

\* sequential use: one caller, one call at a time
Spec == Init /\ [][Next]_vars

(***************************************************************************)
(* Concurrent use: every caller makes one call of Assert; the calls        *)
(* interleave between the return of Validate (line 25) and the reads of    *)
(* envMap (lines 43-110).                                                  *)
(***************************************************************************)
\* line 25: missing, invalid := Validate(config)
AssertValidate(p, t) ==
    LET Return(val) ==
            /\ call' = [call EXCEPT ![p] =
                   Call("Assert", t, IF val.panic THEN "panicked" ELSE "validated", val,
                        IF val.panic THEN Outcome("panic", << >>, << >>) ELSE NoOutcome)]
            /\ envMap' = IF val.panic THEN envMap ELSE val.environment
    IN  /\ call[p].stage = "idle"
        /\ Return(ValidateOf[<< t, env >>])
        /\ UNCHANGED << env, changed, repeated >>

\* lines 27-113, reading the envMap of the moment
AssertBind(p) ==
    LET Return(out) ==
            call' = [call EXCEPT ![p].stage = IF out.kind = "panic" THEN "panicked" ELSE "returned",
                                 ![p].out = out]
    IN  /\ call[p].stage = "validated"
        /\ Return(AssertFinish(call[p].t, call[p].val, envMap))
        /\ UNCHANGED << env, envMap, changed, repeated >>

NextConc ==
    \/ \E p \in Procs : \E t \in 1..Len(Schemas) : AssertValidate(p, t)
    \/ \E p \in Procs : AssertBind(p)

SpecConc == Init /\ [][NextConc]_vars

(***************************************************************************)
(* MustAssert next to Assert: one caller calls the one and the other on    *)
(* the same arguments, the surrounding program changing the environment    *)
(* between calls.                                                          *)
(***************************************************************************)
\* MustAssert as it would be if it returned what Assert returned whatever the
\* error
MustAssertResultSilent(a) ==
    IF a.kind = "error" THEN Outcome("ok", a.instance, << >>) ELSE a

\* src/main.go lines 117-123, from what Assert gave back: the panic of line
\* 120 carries the text of the error; a panic of Assert passes through
MustAssertResult(a) ==
    IF a.kind = "error" THEN Outcome("panic", << >>, a.errors) ELSE a

\* the value MustAssert panics with, line 120
PanicText(out) == <<"C","o","n","f","i","g","u","r","a","t","i","o","n"," ","e","r","r","o","r",":"," ">> \o ErrorText(out.errors)

\* MustAssert(Schemas[t]) with no other call in between
MustAssertCall(p, t) ==
    LET Return(val, out) ==
            /\ call' = [call EXCEPT ![p] =
                   Call("MustAssert", t, IF out.kind = "panic" THEN "panicked" ELSE "returned",
                        val, out)]
            /\ envMap' = IF val.panic THEN envMap ELSE val.environment
        Run(val) ==
            Return(val, MustAssertResult(
                            AssertFinish(t, val, IF val.panic THEN envMap ELSE val.environment)))
    IN  /\ \A q \in Procs : Idle(q)
        /\ Run(ValidateOf[<< t, env >>])
        /\ changed' = FALSE
        /\ repeated' = Repeats(p, "MustAssert", t)
        /\ UNCHANGED env

NextMust ==
    \/ \E k \in EnvKeys : \E v \in EnvValues(k) : Setenv(k, v)
    \/ \E t \in 1..Len(Schemas) : AssertCall(Main, t)
    \/ \E t \in 1..Len(Schemas) : MustAssertCall(Main, t)

SpecMust == Init /\ [][NextMust]_vars

(***************************************************************************)
(* Assert on arguments whose fields the caller has filled in: the argument *)
(* is a value of a struct type, and Assert and Validate take its type.     *)
(***************************************************************************)
\* a value of the type Schemas[t] with the given payloads in its fields
Config(t, fields) == [type |-> t, fields |-> fields]
\* reflect.TypeOf(config), lines 41 and 167
TypeOf(config) == config.type

\* a payload of a type that is not its zero value
Preset(type) ==
    CASE type.kind = "string"  -> <<"p","r","e","s","e","t">>
      [] type.kind = "bool"    -> TRUE
      [] type.kind = "int"     -> << "7" >>
      [] type.kind = "float64" -> << "7" >>
      [] type.elemKind = "bool" -> << TRUE >>
      [] type.elemKind = "int"  -> << << "7" >> >>
      [] OTHER                  -> << <<"p","r","e","s","e","t">> >>

\* the arguments of the type Schemas[t]: the zero value and a filled-in one
Configs(t) ==
    {Config(t, ZeroInstance(Schemas[t])),
     Config(t, [n \in 1..Len(Schemas[t].fields) |-> Preset(Schemas[t].fields[n].Type)])}

\* Assert as it would be if it returned its argument next to an error
AssertOnReturnsConfig(config, val, em) ==
    LET Keep(out) == IF out.kind = "error" THEN [out EXCEPT !.instance = config.fields]
                     ELSE out
    IN  Keep(AssertFinish(TypeOf(config), val, em))

\* src/main.go lines 24-113 on the argument config
AssertOn(config, val, em) == AssertFinish(TypeOf(config), val, em)

\* Assert(config) with no other call in between
AssertConfigCall(p, config) ==
    LET Return(val, out) ==
            /\ call' = [call EXCEPT ![p] =
                   Call("Assert(config)", config,
                        IF out.kind = "panic" THEN "panicked" ELSE "returned", val, out)]
            /\ envMap' = IF val.panic THEN envMap ELSE val.environment
        Run(val) ==
            Return(val, AssertOn(config, val, IF val.panic THEN envMap ELSE val.environment))
    IN  /\ \A q \in Procs : Idle(q)
        /\ Run(ValidateOf[<< TypeOf(config), env >>])
        /\ UNCHANGED << env, changed, repeated >>

NextConfig ==
    \E t \in 1..Len(Schemas) : \E config \in Configs(t) : AssertConfigCall(Main, config)

SpecConfig == Init /\ [][NextConfig]_vars

(***************************************************************************)
(* The coercers called on their own: parseVariable, boolParser and         *)
(* ipv4Parser applied to a type identifier and a text, and Validate on     *)
(* each argument in the environment with no variable set.                  *)
(***************************************************************************)
\* the type identifiers passed to parseVariable
CoerceTypes ==
    {<<"s","t","r","i","n","g">>, <<"i","n","t">>, <<"b","o","o","l">>,
     <<"I","P","v","4">>, <<"i","p","v","4">>, <<"u","r","l">>, <<"U","R","L">>,
     <<"H","T","T","P","U","R","L">>, <<"B","o","o","l">>, <<"B","O","O","L">>,
     <<"f","l","o","a","t","6","4">>, <<>>, <<"s","t","r","i","n","g","s">>,
     <<"u","i","n","t">>, <<"[","]","i","n","t">>}
\* the texts passed to parseVariable, to boolParser and to ipv4Parser
CoerceTexts ==
    {<<>>, <<"t","r","u","e">>, <<"T","R","U","E">>, <<"8","0","8","0">>,
     <<"-","1">>, <<"a","b","c">>, <<"1","0",".","0",".","0",".","1">>,
     <<":",":","1">>, <<"h","t","t","p",":","/","/","x">>,
     <<"d","b",":","5","4","3","2">>, <<"l","o","c","a","l","h","o","s","t">>}
BoolTexts ==
    {<<"t","r","u","e">>, <<"f","a","l","s","e">>, <<"y","e","s">>, <<"n","o">>,
     <<"1">>, <<"0">>, <<"T","R","U","E">>, <<"T","r","u","e">>, <<"Y","e","s">>,
     <<"N","O">>, <<" ","t","r","u","e">>, <<"t","r","u","e"," ">>, <<>>, <<"2">>,
     <<"y">>, <<"t">>, <<"o","n">>, <<"m","a","y","b","e">>, <<"0","1">>,
     <<"t","r","u","e","f","a","l","s","e">>}
IPv4Texts ==
    {<<"1","0",".","0",".","0",".","1">>,
     <<"1","9","2",".","1","6","8",".","1",".","1">>,
     <<"0",".","0",".","0",".","0">>,
     <<"2","5","5",".","2","5","5",".","2","5","5",".","2","5","5">>,
     <<"2","5","6",".","0",".","0",".","1">>, <<"0","1",".","2",".","3",".","4">>,
     <<"1",".","2",".","3">>, <<"1",".","2",".","3",".","4",".","5">>,
     <<"1",".",".","3",".","4">>, <<"1",".","2",".","3",".","4"," ">>,
     <<" ","1",".","2",".","3",".","4">>, <<>>,
     <<"l","o","c","a","l","h","o","s","t">>, <<"a",".","b",".","c",".","d">>,
     <<":",":","1">>, <<":",":">>, <<"2","0","0","1",":","d","b","8",":",":","1">>,
     <<"f","e","8","0",":",":","1">>,
     <<"1",":","2",":","3",":","4",":","5",":","6",":","7",":","8">>,
     <<":",":","f","f","f","f",":","1","0",".","0",".","0",".","1">>,
     <<":",":","F","F","F","F",":","1","0",".","0",".","0",".","1">>,
     <<":",":","f","f","f","f",":","a","0","0",":","1">>,
     <<"0",":","0",":","0",":","0",":","0",":","f","f","f","f",":","a","0","0",":","1">>,
     <<":",":","f","f","f","f",":","1","0",".","0",".","0",".","2","5","6">>,
     <<":",":","1","0",".","0",".","0",".","1">>,
     <<"1",".","2",".","3",".","4","%","e","t","h","0">>,
     <<"f","e","8","0",":",":","1","%","e","t","h","0">>,
     <<"1","2","3","4","5",":",":","1">>, <<"1",":",":","2",":",":","3">>,
     <<":",":","g">>}

\* what a coercer gave back: a panic, or the parsed value with or without error
Coercion(r) ==
    IF r.panic THEN Outcome("panic", << >>, << >>)
    ELSE Outcome(IF r.v.err THEN "error" ELSE "ok", << r.v.val >>, << >>)

\* the call of a coercer: its name, its arguments, its result
CoerceCall(op, fieldType, value, r) ==
    Call(op, [type |-> fieldType, value |-> value],
         IF r.panic THEN "panicked" ELSE "returned", ValidateStart, Coercion(r))

\* src/main.go lines 126-149
ParseVariableCall(p, fieldType, value) ==
    /\ call' = [call EXCEPT ![p] =
           CoerceCall("parseVariable", fieldType, value,
                      parseVariable(F_Port, fieldType, value))]
    /\ UNCHANGED << env, envMap, changed, repeated >>

\* src/bool.go lines 26-30
BoolParserCall(p, value) ==
    /\ call' = [call EXCEPT ![p] =
           CoerceCall("boolParser", N_bool, value, Ret(boolParser(value)))]
    /\ UNCHANGED << env, envMap, changed, repeated >>

\* src/unnamed/part_003 lines 20-26
IPv4ParserCall(p, value) ==
    /\ call' = [call EXCEPT ![p] =
           CoerceCall("ipv4Parser", N_IPv4, value, Ret(ipv4Parser(value)))]
    /\ UNCHANGED << env, envMap, changed, repeated >>

\* the texts passed to urlParser and to httpURLParser
URLTexts ==
    {<<>>, <<" ">>, <<"h","t","t","p",":","/","/","x">>,
     <<" ","h","t","t","p",":","/","/","x">>, <<"h","t","t","p",":","/","/","x"," ">>,
     <<"\t","h","t","t","p",":","/","/","x">>,
     <<"h","t","t","p","s",":","/","/","x","/","p","?","q","=","1">>,
     <<"H","T","T","P",":","/","/","x">>, <<"H","T","T","P","S",":","/","/","x">>,
     <<"d","b",":","5","4","3","2">>, <<" ","d","b",":","5","4","3","2">>,
     <<"l","o","c","a","l","h","o","s","t">>,
     <<"l","o","c","a","l","h","o","s","t","/","p">>, <<"/","p">>, <<" ","/","p"," ">>,
     <<"f","t","p",":","/","/","x">>, <<"h","t","t","p",":","/","/","x"," ","y">>,
     <<"h","t","t","p",":","/","/","x","/","a"," ","b">>, <<":","/","/","x">>, <<"*">>,
     <<"h","t","t","p",":","/","/","x",":","p","o","r","t">>,
     <<"1","0",".","0",".","0",".","1",":","8","0">>,
     <<"h","t","t","p",":","/","/","x","/","%","z","z">>,
     <<"m","a","i","l","t","o",":","a","@","b">>, <<"h","t","t","p",":">>,
     <<"h","t","t","p","s",":","x">>, <<"h","t","t","p",":","/","/">>,
     <<"h","t","t","p"," ",":","/","/","x">>, <<"h","t","t","p","x",":","/","/","x">>,
     <<"h","t","t","p","/","/","x">>}

\* src/tags.go lines 161-168
URLParserCall(p, value) ==
    /\ call' = [call EXCEPT ![p] =
           CoerceCall("urlParser", <<"U","R","L">>, value, Ret(urlParser(value)))]
    /\ UNCHANGED << env, envMap, changed, repeated >>

\* src/tags.go lines 187-195
HTTPURLParserCall(p, value) ==
    /\ call' = [call EXCEPT ![p] =
           CoerceCall("httpURLParser", <<"H","T","T","P","U","R","L">>, value,
                      Ret(httpURLParser(value)))]
    /\ UNCHANGED << env, envMap, changed, repeated >>

InitCoerce ==
    /\ env = [k \in EnvKeys |-> << >>]
    /\ envMap = << >>
    /\ call = [p \in Procs |-> NoCall]
    /\ changed = FALSE
    /\ repeated = FALSE

NextCoerce ==
    \/ \E ft \in CoerceTypes : \E v \in CoerceTexts : ParseVariableCall(Main, ft, v)
    \/ \E v \in BoolTexts : BoolParserCall(Main, v)
    \/ \E v \in IPv4Texts : IPv4ParserCall(Main, v)
    \/ \E v \in URLTexts : URLParserCall(Main, v)
    \/ \E v \in URLTexts : HTTPURLParserCall(Main, v)
    \/ \E t \in 1..Len(Schemas) : ValidateCall(Main, t)

SpecCoerce == InitCoerce /\ [][NextCoerce]_vars

(***************************************************************************)
(* The functions of src/tags.go called on their own, each on a declaration *)
(* (the text of a field's env tag).                                        *)
(***************************************************************************)
\* the declarations passed to the functions
Tags ==
    {<<>>, <<"r","e","q","u","i","r","e","d">>, <<"o","p","t","i","o","n","a","l">>,
     <<"O","P","T","I","O","N","A","L">>,
     <<"O","p","t","i","o","n","a","l",",","d","e","f","a","u","l","t","=","'","8","0","8","0","'">>,
     <<"r","e","q","u","i","r","e","d",",","o","p","t","i","o","n","a","l">>,
     <<"r","e","q","u","i","r","e","d",",","d","e","f","a","u","l","t","=","'","8","0","8","0","'">>,
     <<"r","e","q","u","i","r","e","d",",","n","a","m","e","=","'","D","B","_","H","O","S","T","'">>,
     <<"r","e","q","u","i","r","e","d",",","n","a","m","e","=","'","O","P","T","I","O","N","A","L","_","H","O","S","T","'">>,
     <<"r","e","q","u","i","r","e","d",",","d","e","f","a","u","l","t","=","'","o","p","t","i","o","n","a","l","'">>,
     <<"r","e","q","u","i","r","e","d",",","d","e","f","a","u","l","t","=","'","r","e","q","u","i","r","e","d","'">>,
     <<"r","e","q","u","i","r","e","d",",","v","a","l","u","e","s","=","'","o","p","t","i","o","n","a","l",",","r","e","q","u","i","r","e","d","'">>,
     <<"r","e","q","u","i","r","e","d",",","v","a","l","u","e","s","=","'","a",",","b","'">>,
     <<"r","e","q","u","i","r","e","d",",","s","e","p","a","r","a","t","o","r","=","'","|","'">>,
     <<"r","e","q","u","i","r","e","d",",","s","e","p","a","r","a","t","o","r","=","'","o","'">>,
     <<"n","a","m","e","=","'","F","I","R","S","T","'",",","n","a","m","e","=","'","S","E","C","O","N","D","'">>,
     <<"s","e","p","a","r","a","t","o","r","=","'",",","'",",","s","e","p","a","r","a","t","o","r","=","'","|","'">>,
     <<"v","a","l","u","e","s","=","'","a",",","b","'",",","v","a","l","u","e","s","=","'","c","'">>,
     <<"d","e","f","a","u","l","t","=","'","1","'",",","d","e","f","a","u","l","t","=","'","2","'">>,
     <<"n","a","m","e","=","'","A","'",",","o","p","t","i","o","n","a","l",",","n","a","m","e","=","'","B","'",",","n","a","m","e","=","'","C","'">>,
     <<"s","e","p","a","r","a","t","o","r","=","'",",","'">>,
     <<"s","e","p","a","r","a","t","o","r","=","'","|","'">>,
     <<"s","e","p","a","r","a","t","o","r","=","'"," ","'">>,
     <<"s","e","p","a","r","a","t","o","r","=","'","\t","'">>,
     <<"s","e","p","a","r","a","t","o","r","=","'","\n","'">>,
     <<"s","e","p","a","r","a","t","o","r","=","'","'">>,
     <<"s","e","p","a","r","a","t","o","r","=","'",",",",","'">>,
     <<"s","e","p","a","r","a","t","o","r","=",",">>,
     <<"s","e","p","a","r","a","t","o","r","=","\"",",","\"">>,
     <<"s","e","p","a","r","a","t","o","r","=","i","n","v","a","l","i","d">>,
     <<"n","a","m","e","=","N","O","_","Q","U","O","T","E","S">>,
     <<"n","a","m","e","=","\"","D","O","U","B","L","E","_","Q","U","O","T","E","S","\"">>,
     <<"d","e","f","a","u","l","t","=","8","0","8","0">>,
     <<"d","e","f","a","u","l","t","=","\"","8","0","8","0","\"">>,
     <<"v","a","l","u","e","s","=","a",",","b">>,
     <<"v","a","l","u","e","s","=","\"","a",",","b","\"">>,
     <<"v","a","l","u","e","s","=","'","a",","," ","b"," ",",","c","'">>,
     <<"v","a","l","u","e","s","=","'","'">>, <<"n","a","m","e","=","'","'">>,
     <<"d","e","f","a","u","l","t","=","'","'">>,
     <<"o","p","t","i","o","n","a","l",",","s","e","p","a","r","a","t","o","r","=","'",",","'",",","d","e","f","a","u","l","t","=","'","t","e","s","t","'">>,
     <<"v","a","l","u","e","s","=","'","8","0","0","0",",","8","0","8","0","'",",","d","e","f","a","u","l","t","=","'","8","0","8","0","'">>,
     <<"o","p","t","i","o","n","a","l",",","n","a","m","e","=","'","P","O","R","T","'">>,
     <<"o","p","t","i","o","n","a","l",",","n","a","m","e","=","'","p","o","r","t","'">>}

\* the call of a function of tags.go: its name, the declaration, its result
\* or its panic
TagCall(op, tag, r) ==
    Call(op, [type |-> << >>, value |-> tag],
         IF r.panic THEN "panicked" ELSE "returned", ValidateStart,
         IF r.panic THEN Outcome("panic", << >>, << >>)
         ELSE Outcome("ok", << r.v >>, << >>))

\* src/tags.go lines 67-69
IsOptionalCall(p, tag) ==
    /\ call' = [call EXCEPT ![p] = TagCall("isOptional", tag, Ret(isOptional(tag)))]
    /\ UNCHANGED << env, envMap, changed, repeated >>
\* src/tags.go lines 71-74
HasDefaultCall(p, tag) ==
    /\ call' = [call EXCEPT ![p] = TagCall("hasDefault", tag, Ret(hasDefault(tag)))]
    /\ UNCHANGED << env, envMap, changed, repeated >>
\* src/tags.go lines 81-93
GetSeparatorCall(p, tag) ==
    /\ call' = [call EXCEPT ![p] = TagCall("getSeparator", tag, getSeparator(tag))]
    /\ UNCHANGED << env, envMap, changed, repeated >>
\* src/tags.go lines 95-107
GetNameCall(p, tag) ==
    /\ call' = [call EXCEPT ![p] = TagCall("getName", tag, getName(tag))]
    /\ UNCHANGED << env, envMap, changed, repeated >>
\* src/tags.go lines 109-112
HasValuesCall(p, tag) ==
    /\ call' = [call EXCEPT ![p] = TagCall("hasValues", tag, Ret(hasValues(tag)))]
    /\ UNCHANGED << env, envMap, changed, repeated >>
\* src/tags.go lines 114-133
GetValuesCall(p, tag) ==
    /\ call' = [call EXCEPT ![p] = TagCall("getValues", tag, getValues(tag))]
    /\ UNCHANGED << env, envMap, changed, repeated >>

NextTags ==
    \/ \E tag \in Tags : IsOptionalCall(Main, tag)
    \/ \E tag \in Tags : HasDefaultCall(Main, tag)
    \/ \E tag \in Tags : GetSeparatorCall(Main, tag)
    \/ \E tag \in Tags : GetNameCall(Main, tag)
    \/ \E tag \in Tags : HasValuesCall(Main, tag)
    \/ \E tag \in Tags : GetValuesCall(Main, tag)

SpecTags == InitCoerce /\ [][NextTags]_vars

(***************************************************************************)
(* Vocabulary of the properties.                                           *)
(***************************************************************************)
FieldsOf(c) == Schemas[c.t].fields
FieldIdx(c) == 1..Len(FieldsOf(c))

\* the call has run Validate to its return
Validated(c) == c.op \in {"Validate", "Assert"} /\ ~ c.val.panic
\* the call has come back to its caller
Returned(c) == c.stage = "returned"

\* the key looked up for a field, its label in the lists, its environment value
EnvKey(field)    == ToUpper(getEnvVarNameFromField(field).v)
FieldLabel(field) == Label(field.Name, EnvKey(field))
RawEnv(field, e) == Getenv(e, EnvKey(field))

InSeq(x, seq) == \E i \in 1..Len(seq) : seq[i] = x
InvalidNames(val) == [i \in 1..Len(val.invalid) |-> val.invalid[i].name]

\* the field is given a raw value: by the environment, or by its default
DefaultApplies(field, e) == Len(RawEnv(field, e)) = 0 /\ isOptional(field.Tag) /\ hasDefault(field.Tag)
HasRaw(field, e) == Len(RawEnv(field, e)) > 0 \/ DefaultApplies(field, e)
Raw(field, e) == IF Len(RawEnv(field, e)) > 0 THEN RawEnv(field, e) ELSE getDefault(field.Tag)
\* optional, no default, no value
LeftOut(field, e) == Len(RawEnv(field, e)) = 0 /\ isOptional(field.Tag) /\ ~ hasDefault(field.Tag)
\* required, no value
RequiredEmpty(field, e) == Len(RawEnv(field, e)) = 0 /\ ~ isOptional(field.Tag)

\* the scalar type that coerces the field (its element type for a slice), the
\* pieces of a raw value and their coercions
IsSlice(field)  == field.Type.kind = "slice"
CoercerOf(field) == IF IsSlice(field) THEN field.Type.elem ELSE field.Type.name
Recognised(field) == ~ parseVariable(field.Name, CoercerOf(field), << >>).panic
Pieces(field, raw) == IF IsSlice(field) THEN Split(raw, getSeparator(field.Tag).v) ELSE << raw >>
PieceResult(field, piece) == parseVariable(field.Name, CoercerOf(field), piece).v
CoercionFails(field, raw) ==
    /\ Recognised(field)
    /\ \E i \in 1..Len(Pieces(field, raw)) : PieceResult(field, Pieces(field, raw)[i]).err
\* the coerced result of a raw value, in the field's declared type
Coerced(field, raw) ==
    IF IsSlice(field)
    THEN [i \in 1..Len(Pieces(field, raw)) |-> PieceResult(field, Pieces(field, raw)[i]).val.v]
    ELSE PieceResult(field, raw).val.v

\* the labels, in declaration order, of the fields of c at the indices in keep
LabelsAt(c, keep) ==
    LET idx  == [n \in FieldIdx(c) |-> n]
        kept == SelectSeq(idx, LAMBDA n : n \in keep)
    IN  [i \in 1..Len(kept) |-> FieldLabel(FieldsOf(c)[kept[i]])]

(***************************************************************************)
(* C1.  When Assert's validation pass leaves a field Missing or Invalid,   *)
(* Assert returns a non-nil error and the zero value of the type: every    *)
(* field of the returned instance is at its zero value.                    *)
(***************************************************************************)
C1_ErrorReturnsZeroValue ==
    \A p \in Procs :
        LET c == call[p]
        IN  (c.op = "Assert" /\ c.stage # "validated" /\ Validated(c)
             /\ Len(c.val.missing) + Len(c.val.invalid) > 0)
            => /\ Returned(c)
               /\ c.out.kind = "error"
               /\ Len(c.out.errors) > 0
               /\ Len(c.out.instance) = Len(FieldsOf(c))
               /\ \A n \in FieldIdx(c) : c.out.instance[n] = Zero(FieldsOf(c)[n].Type)

\* an Assert that failed on one field after coercing another to a value that
\* is not its zero value
C1_Witness ==
    LET c == call[Main]
    IN  /\ c.op = "Assert" /\ Returned(c) /\ c.out.kind = "error"
        /\ Len(c.val.invalid) > 0
        /\ \E n \in FieldIdx(c) :
              /\ FieldsOf(c)[n].Name \in DOMAIN c.val.environment
              /\ c.val.environment[FieldsOf(c)[n].Name].Value.t = "int"
              /\ c.val.environment[FieldsOf(c)[n].Name].Value.v = V_8080

(***************************************************************************)
(* C2.  Validate examines every field once, in declaration order, and does *)
(* not stop at the first failure: the missing list is exactly the required *)
(* fields whose environment value is empty, the invalid list exactly the   *)
(* fields whose raw value fails coercion, both in declaration order,       *)
(* whatever the outcome of the other fields.                               *)
(***************************************************************************)
C2_EveryFieldReported ==
    \A p \in Procs :
        LET c == call[p]
            MissingHere == {n \in FieldIdx(c) : RequiredEmpty(FieldsOf(c)[n], env)}
            InvalidHere == {n \in FieldIdx(c) :
                               /\ HasRaw(FieldsOf(c)[n], env)
                               /\ CoercionFails(FieldsOf(c)[n], Raw(FieldsOf(c)[n], env))}
        IN  (Validated(c) /\ ~ changed)
            => /\ c.val.missing = LabelsAt(c, MissingHere)
               /\ InvalidNames(c.val) = LabelsAt(c, InvalidHere)
               /\ \A i \in 1..Len(c.val.invalid) :
                     \E n \in FieldIdx(c) :
                        /\ FieldLabel(FieldsOf(c)[n]) = c.val.invalid[i].name
                        /\ c.val.invalid[i].value = Raw(FieldsOf(c)[n], env)

\* a Validate whose first field failed and whose second field failed too
C2_Witness ==
    LET c == call[Main]
    IN  /\ c.op = "Validate" /\ Returned(c) /\ ~ changed
        /\ Len(FieldsOf(c)) = 2
        /\ c.val.missing = << FieldLabel(FieldsOf(c)[1]) >>
        /\ InvalidNames(c.val) = << FieldLabel(FieldsOf(c)[2]) >>

(***************************************************************************)
(* C3.  After a Validate that returns, every field of the schema is in     *)
(* exactly one of the missing list, the invalid list and envMap.           *)
(***************************************************************************)
C3_ExactlyOneOutcome ==
    \A p \in Procs :
        LET c == call[p]
            InMissing(f) == InSeq(FieldLabel(f), c.val.missing)
            InInvalid(f) == InSeq(FieldLabel(f), InvalidNames(c.val))
            InValid(f)   == f.Name \in DOMAIN envMap
        IN  (Validated(c) /\ c.stage # "validated")
            => /\ \A n \in FieldIdx(c) :
                     LET f == FieldsOf(c)[n]
                     IN  \/ InMissing(f) /\ ~ InInvalid(f) /\ ~ InValid(f)
                         \/ ~ InMissing(f) /\ InInvalid(f) /\ ~ InValid(f)
                         \/ ~ InMissing(f) /\ ~ InInvalid(f) /\ InValid(f)
               /\ Len(c.val.missing) + Len(c.val.invalid) + Cardinality(DOMAIN envMap)
                     = Len(FieldsOf(c))

\* a Validate that left one field missing and stored the other in envMap
C3_Witness ==
    LET c == call[Main]
    IN  /\ c.op = "Validate" /\ Returned(c)
        /\ Len(c.val.missing) = 1
        /\ Cardinality(DOMAIN envMap) = 1

(***************************************************************************)
(* C4.  When the validation pass reports no Missing and no Invalid field,  *)
(* Assert returns a nil error and an instance in which every field that    *)
(* was given a raw value holds that value's coerced result in the field's  *)
(* declared type.                                                          *)
(***************************************************************************)
C4_SuccessBindsCoerced ==
    \A p \in Procs :
        LET c == call[p]
        IN  (c.op = "Assert" /\ c.stage # "validated" /\ Validated(c) /\ ~ changed
             /\ Len(c.val.missing) + Len(c.val.invalid) = 0)
            => /\ Returned(c)
               /\ c.out.kind = "ok"
               /\ \A n \in FieldIdx(c) :
                     HasRaw(FieldsOf(c)[n], env)
                     => c.out.instance[n] = Coerced(FieldsOf(c)[n], Raw(FieldsOf(c)[n], env))

(***************************************************************************)
(* C5.  When two Assert calls on different schemas run concurrently, each  *)
(* call that succeeds returns an instance built from its own validation    *)
(* pass only: every field its pass coerced holds that coerced value, and   *)
(* every other field is at its zero value.                                 *)
(***************************************************************************)
C5_ConcurrentAssertOwnValues ==
    \A p \in Procs :
        LET c == call[p]
        IN  (c.op = "Assert" /\ Returned(c) /\ c.out.kind = "ok")
            => \A n \in FieldIdx(c) :
                  c.out.instance[n] =
                     IF HasRaw(FieldsOf(c)[n], env)
                     THEN Coerced(FieldsOf(c)[n], Raw(FieldsOf(c)[n], env))
                     ELSE Zero(FieldsOf(c)[n].Type)

(***************************************************************************)
(* C6.  A call that repeats the call before it (same operation, same       *)
(* schema, environment unchanged in between) gives the same missing and    *)
(* invalid lists and returns the same instance or the same error.          *)
(***************************************************************************)
C6_Idempotent ==
    [][\A p \in Procs :
          (/\ call[p].stage # "idle"
           /\ ~ changed
           /\ env' = env
           /\ call'[p].op = call[p].op
           /\ call'[p].t = call[p].t)
          => /\ call'[p].val.missing = call[p].val.missing
             /\ call'[p].val.invalid = call[p].val.invalid
             /\ call'[p].out = call[p].out]_vars

\* a successful Assert that repeated a successful Assert and bound a value
C6_Witness ==
    /\ repeated
    /\ call[Main].op = "Assert"
    /\ call[Main].out.kind = "ok"
    /\ \E n \in FieldIdx(call[Main]) : HasRaw(FieldsOf(call[Main])[n], env)

(***************************************************************************)
(* C7.  For an optional field with a default clause: when its environment  *)
(* value is empty, Validate takes the default text as the raw value and    *)
(* coerces it, and a successful Assert returns the coerced default in that *)
(* field; when the environment value is not empty the default is not used. *)
(***************************************************************************)
C7_DefaultWhenEmpty ==
    \A p \in Procs :
        LET c == call[p]
        IN  (Validated(c) /\ c.stage # "validated" /\ ~ changed)
            => \A n \in FieldIdx(c) :
                  LET f   == FieldsOf(c)[n]
                      raw == IF Len(RawEnv(f, env)) = 0 THEN getDefault(f.Tag) ELSE RawEnv(f, env)
                  IN  (isOptional(f.Tag) /\ hasDefault(f.Tag))
                      => /\ InSeq(f.Name, c.val.coerced)
                         /\ ~ InSeq(FieldLabel(f), c.val.missing)
                         /\ InSeq(FieldLabel(f), InvalidNames(c.val)) = CoercionFails(f, raw)
                         /\ \A i \in 1..Len(c.val.invalid) :
                               c.val.invalid[i].name = FieldLabel(f) => c.val.invalid[i].value = raw
                         /\ (c.op = "Assert" /\ c.out.kind = "ok")
                               => c.out.instance[n] = Coerced(f, raw)

\* a successful Assert that bound a default other than the zero value
C7_Witness ==
    LET c == call[Main]
    IN  /\ c.op = "Assert" /\ Returned(c) /\ c.out.kind = "ok" /\ ~ changed
        /\ \E n \in FieldIdx(c) :
              /\ DefaultApplies(FieldsOf(c)[n], env)
              /\ c.out.instance[n] = V_8080

(***************************************************************************)
(* C8.  An optional field with no default clause and an empty environment  *)
(* value is in neither list of Validate and no coercion is attempted for   *)
(* it, whatever its type.                                                  *)
(***************************************************************************)
C8_LeftOutNotCoerced ==
    \A p \in Procs :
        LET c == call[p]
        IN  (Validated(c) /\ ~ changed)
            => \A n \in FieldIdx(c) :
                  LET f == FieldsOf(c)[n]
                  IN  LeftOut(f, env)
                      => /\ ~ InSeq(FieldLabel(f), c.val.missing)
                         /\ ~ InSeq(FieldLabel(f), InvalidNames(c.val))
                         /\ ~ InSeq(f.Name, c.val.coerced)

\* a Validate that returned although a field left out has a type no coercer knows
C8_Witness ==
    LET c == call[Main]
    IN  /\ c.op = "Validate" /\ Returned(c) /\ ~ changed
        /\ \E n \in FieldIdx(c) :
              LeftOut(FieldsOf(c)[n], env) /\ ~ Recognised(FieldsOf(c)[n])

(***************************************************************************)
(* C9.  For a schema with an optional field without default whose          *)
(* environment value is empty, and whose other fields are all valid,       *)
(* Assert returns a nil error and an instance in which that field is at    *)
(* the zero value of its type, for scalar and for slice fields.            *)
(***************************************************************************)
C9_LeftOutBindsZero ==
    \A p \in Procs :
        LET c == call[p]
        IN  (c.op = "Assert" /\ c.stage # "validated" /\ Validated(c) /\ ~ changed
             /\ Len(c.val.missing) + Len(c.val.invalid) = 0)
            => \A n \in FieldIdx(c) :
                  LeftOut(FieldsOf(c)[n], env)
                  => /\ c.out.kind = "ok"
                     /\ c.out.instance[n] = Zero(FieldsOf(c)[n].Type)

(***************************************************************************)
(* C10.  For a field with a values clause, a non-empty environment value   *)
(* that is not a member of the declared set makes the field Invalid, even  *)
(* when the value coerces to the field's type.                             *)
(***************************************************************************)
C10_ValuesClauseEnforced ==
    \A p \in Procs :
        LET c == call[p]
        IN  (Validated(c) /\ ~ changed)
            => \A n \in FieldIdx(c) :
                  LET f == FieldsOf(c)[n]
                  IN  (/\ hasValues(f.Tag)
                       /\ Len(RawEnv(f, env)) > 0
                       /\ ~ in(RawEnv(f, env), getValues(f.Tag).v))
                      => InSeq(FieldLabel(f), InvalidNames(c.val))

(***************************************************************************)
(* C11.  When an optional field's environment value is empty and its       *)
(* default is not a member of its values clause, Validate panics: it does  *)
(* not return.                                                             *)
(***************************************************************************)
C11_DefaultOutsideValuesPanics ==
    \A p \in Procs :
        LET c == call[p]
        IN  (c.op \in {"Validate", "Assert"} /\ Schemas[c.t].kind = "struct" /\ ~ changed
             /\ \E n \in FieldIdx(c) :
                   LET f == FieldsOf(c)[n]
                   IN  /\ DefaultApplies(f, env)
                       /\ hasValues(f.Tag)
                       /\ ~ in(getDefault(f.Tag), getValues(f.Tag).v))
            => c.val.panic

(***************************************************************************)
(* C12.  When an optional field's environment value is empty and its       *)
(* default fails coercion to the field's type, Validate panics: the        *)
(* failure is not an entry of the invalid list.                            *)
(***************************************************************************)
C12_BadDefaultPanics ==
    \A p \in Procs :
        LET c == call[p]
        IN  (c.op \in {"Validate", "Assert"} /\ Schemas[c.t].kind = "struct" /\ ~ changed
             /\ \E n \in FieldIdx(c) :
                   LET f == FieldsOf(c)[n]
                   IN  /\ DefaultApplies(f, env)
                       /\ CoercionFails(f, getDefault(f.Tag)))
            => c.val.panic

(***************************************************************************)
(* C13.  Whether Validate panics depends on the schema only: two Validate  *)
(* calls on the same schema, whatever the environment of each, both panic  *)
(* or both return.                                                         *)
(***************************************************************************)
C13_PanicDependsOnSchemaOnly ==
    [][\A p \in Procs :
          (/\ call[p].op = "Validate"
           /\ call'[p].op = "Validate"
           /\ call'[p].t = call[p].t)
          => call'[p].val.panic = call[p].val.panic]_vars

(***************************************************************************)
(* C14.  Validate panics when its argument is not a struct, returning no   *)
(* list; parseVariable panics exactly for the type identifiers that, in    *)
(* lower case, are none of string, bool, int, ipv4, url and httpurl, and   *)
(* for those six it returns a value or an error.                           *)
(***************************************************************************)
C14_SchemaDefectsPanic ==
    \A p \in Procs :
        LET c == call[p]
            Registry == {<<"s","t","r","i","n","g">>, <<"b","o","o","l">>, <<"i","n","t">>,
                         <<"i","p","v","4">>, <<"u","r","l">>, <<"h","t","t","p","u","r","l">>}
        IN  /\ c.op = "parseVariable"
               => /\ (c.stage = "panicked") = (ToLower(c.t.type) \notin Registry)
                  /\ (c.out.kind = "panic") = (ToLower(c.t.type) \notin Registry)
                  /\ c.out.kind \in {"ok", "error", "panic"}
            /\ (c.op = "Validate" /\ Schemas[c.t].kind # "struct")
               => /\ c.stage = "panicked"
                  /\ c.val.panic
                  /\ c.val.missing = << >> /\ c.val.invalid = << >>

\* parseVariable panicked on a text the int coercer accepts, the type
\* identifier being unknown
C14_Witness ==
    LET c == call[Main]
    IN  /\ c.op = "parseVariable" /\ c.stage = "panicked"
        /\ c.t.type = N_float64
        /\ c.t.value = V_8080

(***************************************************************************)
(* C19.  boolParser succeeds exactly for the texts true, false, yes, no, 1 *)
(* and 0, compared as written; it yields true for true, yes and 1 and      *)
(* false for every other text, the failing ones and the empty one          *)
(* included.                                                               *)
(***************************************************************************)
C19_BoolLiterals ==
    \A p \in Procs :
        LET c == call[p]
            Truthy == {<<"t","r","u","e">>, <<"y","e","s">>, <<"1">>}
            Falsy  == {<<"f","a","l","s","e">>, <<"n","o">>, <<"0">>}
        IN  c.op = "boolParser"
            => /\ c.stage = "returned"
               /\ (c.out.kind = "ok") = (c.t.value \in Truthy \cup Falsy)
               /\ (c.out.kind = "error") = (c.t.value \notin Truthy \cup Falsy)
               /\ c.out.instance = << BoolVal(c.t.value \in Truthy) >>

\* boolParser failed on a literal written in upper case
C19_Witness ==
    LET c == call[Main]
    IN  /\ c.op = "boolParser" /\ c.out.kind = "error"
        /\ c.t.value = <<"T","R","U","E">>
        /\ c.out.instance = << BoolVal(FALSE) >>

(***************************************************************************)
(* C20.  ipv4Parser succeeds exactly for the texts in dotted-decimal form  *)
(* of four octets, returning the text unchanged; for every other text,     *)
(* every IPv6 literal included, it fails and returns the empty text.       *)
(***************************************************************************)
C20_DottedQuadOnly ==
    \A p \in Procs :
        LET c == call[p]
        IN  c.op = "ipv4Parser"
            => /\ c.stage = "returned"
               /\ (c.out.kind = "ok") = IsDottedQuad(c.t.value)
               /\ c.out.instance =
                     << StringVal(IF IsDottedQuad(c.t.value) THEN c.t.value ELSE << >>) >>

(***************************************************************************)
(* C15.  The key looked up for a field is its name clause exactly as       *)
(* written, lower-case letters included, and without a name clause the     *)
(* field identifier in upper case; the label of the field in the lists is  *)
(* 'Field (KEY)' with that key: a required field is in the missing list,   *)
(* under that label, exactly when the variable of that key is empty.       *)
(***************************************************************************)
WrittenKey(field) ==
    IF Len(getName(field.Tag).v) > 0 THEN getName(field.Tag).v ELSE ToUpper(field.Name)

C15_NameClauseKeptAsWritten ==
    \A p \in Procs :
        LET c == call[p]
        IN  (Validated(c) /\ Schemas[c.t].kind = "struct" /\ ~ changed)
            => \A n \in FieldIdx(c) :
                  LET field == FieldsOf(c)[n]
                  IN  ~ isOptional(field.Tag)
                      => (Len(Getenv(env, WrittenKey(field))) = 0
                          <=> InSeq(Label(field.Name, WrittenKey(field)), c.val.missing))

(***************************************************************************)
(* C16.  The raw value of a slice field is split at every occurrence of    *)
(* the separator, giving one element more than there are occurrences, in   *)
(* the order of the text.  The field is Valid only if every element        *)
(* coerces: then the list of the coerced elements is stored; when one      *)
(* element fails the field is Invalid, no list is stored for it and none   *)
(* is bound.                                                               *)
(***************************************************************************)
\* the occurrences of a one-character separator in a text
Occurrences(s, sep) == Cardinality({i \in 1..Len(s) : HasPrefixAt(s, sep, i)})

C16_SliceAllOrNothing ==
    \A p \in Procs :
        LET c == call[p]
        IN  (Validated(c) /\ Schemas[c.t].kind = "struct" /\ ~ changed)
            => \A n \in FieldIdx(c) :
                  LET field  == FieldsOf(c)[n]
                      sep    == getSeparator(field.Tag).v
                      raw    == Raw(field, env)
                      stored == c.val.environment[field.Name]
                      Fails(piece) == parseVariable(field.Name, field.Type.elem, piece).v.err
                      Value(piece) == parseVariable(field.Name, field.Type.elem, piece).v.val
                  IN  (IsSlice(field) /\ HasRaw(field, env))
                      => IF \E i \in 1..Len(Split(raw, sep)) : Fails(Split(raw, sep)[i])
                         THEN /\ InSeq([name |-> FieldLabel(field), value |-> raw], c.val.invalid)
                              /\ field.Name \notin DOMAIN c.val.environment
                              /\ (c.op = "Assert" /\ c.stage # "validated")
                                 => /\ c.out.kind = "error"
                                    /\ c.out.instance[n] = Zero(field.Type)
                         ELSE /\ ~ InSeq(FieldLabel(field), InvalidNames(c.val))
                              /\ field.Name \in DOMAIN c.val.environment
                              /\ stored.Value.t = "slice"
                              /\ Len(stored.Value.v) = Occurrences(raw, sep) + 1
                              /\ \E elems \in [1..Len(stored.Value.v) -> {Split(raw, sep)[i] : i \in 1..Len(Split(raw, sep))}] :
                                    /\ Join(elems, sep) = raw
                                    /\ \A i \in 1..Len(elems) : stored.Value.v[i] = Value(elems[i])

\* a list whose first element coerces and whose second does not: the field is
\* Invalid and Validate stored nothing for it
C16_Witness ==
    LET c == call[Main]
    IN  /\ c.op = "Assert" /\ Returned(c) /\ ~ changed
        /\ Schemas[c.t] = SliceConfig
        /\ env[K_IPS] = V_ip1 \o Comma \o <<"x">>
        /\ InSeq(Label(F_IPs, K_IPS), InvalidNames(c.val))
        /\ F_IPs \notin DOMAIN c.val.environment
        /\ c.out.kind = "error"

(***************************************************************************)
(* C17.  The error Assert returns is non-nil exactly when the missing or   *)
(* the invalid list is non-empty.  Its text has a line 'Missing: ...'      *)
(* exactly when the missing list is non-empty and a line 'Invalid: ...'    *)
(* exactly when the invalid list is non-empty; when it has both, the       *)
(* Missing line is the first and one newline separates the two.            *)
(***************************************************************************)
C17_ErrorRendering ==
    \A p \in Procs :
        LET c == call[p]
            text  == ErrorText(c.out.errors)
            lines == IF Len(text) = 0 THEN << >> ELSE Split(text, << "\n" >>)
            IsMissing(l) == HasPrefixAt(l, <<"M","i","s","s","i","n","g",":"," ">>, 1)
            IsInvalid(l) == HasPrefixAt(l, <<"I","n","v","a","l","i","d",":"," ">>, 1)
        IN  (c.op = "Assert" /\ Returned(c) /\ Validated(c))
            => /\ (c.out.kind = "error") = (Len(c.val.missing) + Len(c.val.invalid) > 0)
               /\ (Len(text) > 0) = (c.out.kind = "error")
               /\ (\E i \in 1..Len(lines) : IsMissing(lines[i])) = (Len(c.val.missing) > 0)
               /\ (\E i \in 1..Len(lines) : IsInvalid(lines[i])) = (Len(c.val.invalid) > 0)
               /\ \A i \in 1..Len(lines) : IsMissing(lines[i]) \/ IsInvalid(lines[i])
               /\ (Len(c.val.missing) > 0 /\ Len(c.val.invalid) > 0)
                  => /\ Len(lines) = 2
                     /\ IsMissing(lines[1]) /\ IsInvalid(lines[2])
                     /\ text = lines[1] \o << "\n" >> \o lines[2]

\* Assert returned an error for a schema with one field Missing and another
\* Invalid
C17_Witness ==
    LET c == call[Main]
    IN  /\ c.op = "Assert" /\ Returned(c) /\ c.out.kind = "error"
        /\ Len(c.val.missing) > 0 /\ Len(c.val.invalid) > 0
        /\ ErrorText(c.out.errors) =
              <<"M","i","s","s","i","n","g",":"," ","[","A","d","d","r"," ","(","D","B","_","H","O","S","T",")","]">>
              \o << "\n" >> \o
              <<"I","n","v","a","l","i","d",":"," ","[","{","I","P","s"," ","(","I","P","S",")"," ","1","0",".","0",".","0",".","1",",","x","}","]">>

C21_URLNoSurroundingSpace ==
    \A p \in Procs :
        LET c == call[p]
            Accepts(v) == /\ Len(v) > 0
                          /\ ~ IsSpace(v[1]) /\ ~ IsSpace(v[Len(v)])
                          /\ ~ ParseRequestURI(v).err
        IN  c.op = "urlParser"
            => /\ c.stage = "returned"
               /\ (c.out.kind = "ok") = Accepts(c.t.value)
               /\ c.out.instance =
                     << StringVal(IF Accepts(c.t.value) THEN c.t.value ELSE << >>) >>

(***************************************************************************)
(* C22.  httpURLParser succeeds exactly when urlParser succeeds on the     *)
(* same text and the scheme of the text, the letters before its first      *)
(* colon in lower case, is http or https.  Every text it accepts urlParser *)
(* accepts; a text of the form host:port without scheme that urlParser     *)
(* accepts it rejects; on failure it returns the empty text, on success    *)
(* the text unchanged.                                                     *)
(***************************************************************************)
C22_HTTPURLNarrowsURL ==
    \A p \in Procs :
        LET c == call[p]
            v == c.t.value
            trimmed == TrimSpace(v)
            colon   == FirstIndex(trimmed, ":")
            scheme  == ToLower(SubSeq(trimmed, 1, colon - 1))
            Web     == colon > 0 /\ scheme \in {<<"h","t","t","p">>, <<"h","t","t","p","s">>}
            Accepts == ~ urlParser(v).err /\ Web
        IN  c.op = "httpURLParser"
            => /\ c.stage = "returned"
               /\ (c.out.kind = "ok") = Accepts
               /\ c.out.kind = "ok" => ~ urlParser(v).err
               /\ c.out.instance = << StringVal(IF Accepts THEN v ELSE << >>) >>

\* httpURLParser rejected a host:port text that urlParser accepts
C22_Witness ==
    LET c == call[Main]
    IN  /\ c.op = "httpURLParser" /\ c.out.kind = "error"
        /\ c.t.value = <<"d","b",":","5","4","3","2">>
        /\ ~ urlParser(c.t.value).err
        /\ c.out.instance = << StringVal(<< >>) >>

(***************************************************************************)
(* C23.  getSeparator, getName and getValues each panic when the           *)
(* declaration holds two or more well-formed occurrences of their clause   *)
(* (matches of their pattern), and return when it holds none or one.       *)
(***************************************************************************)
C23_DuplicateClausePanics ==
    \A p \in Procs :
        LET c == call[p]
            Matches == CASE c.op = "getSeparator" -> Len(separatorRegex(c.t.value))
                         [] c.op = "getName"      -> Len(nameRegex(c.t.value))
                         [] c.op = "getValues"    -> Len(valuesRegex(c.t.value))
                         [] OTHER -> 0
        IN  c.op \in {"getSeparator", "getName", "getValues"}
            => /\ (c.stage = "panicked") = (Matches >= 2)
               /\ (c.stage = "returned") = (Matches <= 1)
               /\ (c.out.kind = "panic") = (Matches >= 2)

\* getName panicked on a declaration with two name clauses
C23_Witness ==
    LET c == call[Main]
    IN  /\ c.op = "getName" /\ c.stage = "panicked"
        /\ c.t.value = <<"n","a","m","e","=","'","F","I","R","S","T","'",",","n","a","m","e","=","'","S","E","C","O","N","D","'">>

(***************************************************************************)
(* C26.  A keyed clause whose value is not between single quotes, and a    *)
(* separator clause whose quoted value is not exactly one character other  *)
(* than a newline, count as absent, without panic: getName returns the     *)
(* empty text, hasDefault and hasValues return false, getValues returns    *)
(* nil and getSeparator returns a single space.                            *)
(***************************************************************************)
\* the key occurs in the declaration, followed by '=', and no occurrence is
\* followed by a single quote
Unquoted(key, tag) ==
    /\ Contains(tag, key \o << "=" >>)
    /\ \A i \in 1..Len(tag) :
          HasPrefixAt(tag, key \o << "=" >>, i)
          => ~ HasPrefixAt(tag, << Quote >>, i + Len(key) + 1)
\* every separator clause with an opening quote has no single character other
\* than a newline between its quotes
BadSeparator(tag) ==
    /\ Contains(tag, W_separator \o << "=" >>)
    /\ \A i \in 1..Len(tag) :
          LET at == i + Len(W_separator) + 2
          IN  HasPrefixAt(tag, W_separator \o << "=", Quote >>, i)
              => \/ at > Len(tag)
                 \/ tag[at] = "\n"
                 \/ ~ HasPrefixAt(tag, << Quote >>, at + 1)

C26_IllFormedClauseIsAbsent ==
    \A p \in Procs :
        LET c == call[p]
            tag == c.t.value
            Gives(x) == c.stage = "returned" /\ c.out.instance = << x >>
        IN  /\ (c.op = "getName" /\ Unquoted(W_name, tag)) => Gives(<< >>)
            /\ (c.op = "hasDefault" /\ Unquoted(W_default, tag)) => Gives(FALSE)
            /\ (c.op = "hasValues" /\ Unquoted(W_values, tag)) => Gives(FALSE)
            /\ (c.op = "getValues" /\ Unquoted(W_values, tag)) => Gives(<< >>)
            /\ (c.op = "getSeparator" /\ (Unquoted(W_separator, tag) \/ BadSeparator(tag)))
               => Gives(<< " " >>)
            /\ (c.op = "getSeparator" /\ ~ Contains(tag, W_separator)) => Gives(<< " " >>)

\* getSeparator returned a single space for a separator clause with two
\* characters between its quotes
C26_Witness ==
    LET c == call[Main]
    IN  /\ c.op = "getSeparator" /\ c.stage = "returned"
        /\ c.t.value = <<"s","e","p","a","r","a","t","o","r","=","'",",",",","'">>
        /\ BadSeparator(c.t.value)
        /\ c.out.instance = << << " " >> >>

(***************************************************************************)
(* C27.  Whether a declaration makes its field optional does not depend    *)
(* on the text between the quotes of its name, default, values and         *)
(* separator clauses: isOptional gives the same answer for two             *)
(* declarations that differ only in the value of a keyed clause.           *)
(***************************************************************************)
\* the declaration with the value of every keyed clause taken out
RECURSIVE Blank(_, _)
Blank(tag, i) ==
    LET Opens(key) == /\ HasPrefixAt(tag, key \o << "=", Quote >>, i)
                      /\ ClosingQuote(tag, i + Len(key) + 2) > 0
        keys == {key \in {W_default, W_name, W_values, W_separator} : Opens(key)}
        Skip(key) == key \o << "=", Quote, Quote >>
                     \o Blank(tag, ClosingQuote(tag, i + Len(key) + 2) + 1)
    IN  IF i > Len(tag) THEN << >>
        ELSE IF keys = {} THEN << tag[i] >> \o Blank(tag, i + 1)
        ELSE Skip(CHOOSE key \in keys : TRUE)

C27_OptionalIgnoresClauseValues ==
    [][ LET a == call[Main]
            b == call'[Main]
        IN  (a.op = "isOptional" /\ b.op = "isOptional"
             /\ Blank(a.t.value, 1) = Blank(b.t.value, 1))
            => b.out.instance = a.out.instance ]_vars

(***************************************************************************)
(* C24.  Validate on a schema in which the declaration of some field holds *)
(* a default, separator, name or values clause twice panics, whatever the  *)
(* type of the field and whatever the environment.                         *)
(***************************************************************************)
C24_DuplicateClauseAbortsValidate ==
    \A p \in Procs :
        LET c == call[p]
            Twice(tag) == \/ Len(defaultRegex(tag)) >= 2
                          \/ Len(separatorRegex(tag)) >= 2
                          \/ Len(nameRegex(tag)) >= 2
                          \/ Len(valuesRegex(tag)) >= 2
        IN  (c.op \in {"Validate", "Assert"} /\ Schemas[c.t].kind = "struct"
             /\ \E n \in FieldIdx(c) : Twice(FieldsOf(c)[n].Tag))
            => c.val.panic

(***************************************************************************)
(* C25.  A slice field whose declaration has no separator clause is split  *)
(* on commas: when every piece between commas coerces, Validate stores the *)
(* list of those pieces and Assert binds it.                               *)
(***************************************************************************)
C25_DefaultSeparatorIsComma ==
    \A p \in Procs :
        LET c == call[p]
        IN  (Validated(c) /\ Schemas[c.t].kind = "struct" /\ ~ changed)
            => \A n \in FieldIdx(c) :
                  LET field  == FieldsOf(c)[n]
                      pieces == Split(Raw(field, env), Comma)
                      Value(piece) == parseVariable(field.Name, field.Type.elem, piece).v
                  IN  (/\ IsSlice(field) /\ HasRaw(field, env)
                       /\ Len(separatorRegex(field.Tag)) = 0
                       /\ \A i \in 1..Len(pieces) : ~ Value(pieces[i]).err)
                      => /\ field.Name \in DOMAIN c.val.environment
                         /\ c.val.environment[field.Name].Value.v
                               = [i \in 1..Len(pieces) |-> Value(pieces[i]).val]
                         /\ (c.op = "Assert" /\ Returned(c) /\ c.out.kind = "ok")
                            => c.out.instance[n] = [i \in 1..Len(pieces) |-> pieces[i]]

(***************************************************************************)
(* C28.  A field is optional exactly when its declaration contains         *)
(* 'optional' in any letter case, a declaration with both required and     *)
(* optional included.  Every other field with an empty environment value   *)
(* is reported Missing, with or without 'required' and with or without a   *)
(* default clause: its default is not substituted and nothing is stored    *)
(* for it.  An optional field is never reported Missing.                   *)
(***************************************************************************)
C28_OptionalBySubstring ==
    \A p \in Procs :
        LET c == call[p]
            HasOptional(tag) ==
                \E i \in 1..Len(tag) :
                    /\ i + 7 <= Len(tag)
                    /\ [k \in 1..8 |-> ToLowerChar(tag[i + k - 1])] = W_optional
        IN  (Validated(c) /\ Schemas[c.t].kind = "struct" /\ ~ changed)
            => \A n \in FieldIdx(c) :
                  LET field == FieldsOf(c)[n]
                      empty == Len(RawEnv(field, env)) = 0
                  IN  /\ (~ HasOptional(field.Tag) /\ empty)
                         => /\ InSeq(FieldLabel(field), c.val.missing)
                            /\ field.Name \notin DOMAIN c.val.environment
                            /\ ~ InSeq(field.Name, c.val.coerced)
                            /\ ~ InSeq(FieldLabel(field), InvalidNames(c.val))
                      /\ HasOptional(field.Tag)
                         => /\ ~ InSeq(FieldLabel(field), c.val.missing)
                            /\ (empty /\ hasDefault(field.Tag))
                               => InSeq(field.Name, c.val.coerced)

\* the field declared 'required' has no value and is Missing; the field
\* declared 'required,Optional' has no value and is given its default
C28_Witness ==
    LET c == call[Main]
    IN  /\ c.op = "Validate" /\ Returned(c) /\ ~ changed
        /\ Schemas[c.t] = ListConfig
        /\ Len(env[K_DEBUG]) = 0
        /\ c.val.environment[F_Debug].Value = BoolVal(TRUE)
        /\ c.val.missing = << Label(F_IPs, K_IPS) >>

(***************************************************************************)
(* C29.  In sequential use, once the latest Validate has returned, with or *)
(* without Missing or Invalid fields, envMap holds exactly the Valid       *)
(* fields of the schema of that call, those in neither list, and nothing   *)
(* of an earlier call; the instance a successful Assert returns is the one *)
(* bound from a validation of its schema in the environment of the call.   *)
(***************************************************************************)
C29_EnvMapFreshEveryPass ==
    \A p \in Procs :
        LET c == call[p]
            Listed(f) == \/ InSeq(FieldLabel(f), c.val.missing)
                         \/ InSeq(FieldLabel(f), InvalidNames(c.val))
            Fresh(val) == Bind(Schemas[c.t], val.environment).v
        IN  (Validated(c) /\ Schemas[c.t].kind = "struct")
            => /\ envMap = c.val.environment
               /\ DOMAIN envMap = {FieldsOf(c)[n].Name : n \in {k \in FieldIdx(c) : ~ Listed(FieldsOf(c)[k])}}
               /\ (c.op = "Assert" /\ Returned(c) /\ c.out.kind = "ok" /\ ~ changed)
                  => c.out.instance = Fresh(Validate(Schemas[c.t], env))

\* a Validate that returned with a field Missing: envMap holds the other
\* field of its schema only
C29_Witness ==
    LET c == call[Main]
    IN  /\ c.op = "Validate" /\ Returned(c)
        /\ Schemas[c.t] = SliceConfig
        /\ c.val.missing = << Label(F_Addr, K_DB_HOST) >>
        /\ DOMAIN envMap = {F_IPs}

(***************************************************************************)
(* C30.  What Assert gives back does not depend on the values in the       *)
(* fields of its argument: two calls on arguments of the same struct type  *)
(* in the same environment, filled in differently, return the same         *)
(* instance or the same error, and a field of the result for which no      *)
(* value was bound is at its zero value, not at the value of the argument. *)
(***************************************************************************)
C30_ArgumentValuesIgnored ==
    [][ LET a == call[Main]
            b == call'[Main]
            type == Schemas[TypeOf(b.t)]
        IN  /\ (a.op = "Assert(config)" /\ b.op = "Assert(config)"
                /\ TypeOf(a.t) = TypeOf(b.t) /\ env' = env)
               => /\ b.stage = a.stage
                  /\ b.out = a.out
            /\ (b.op = "Assert(config)" /\ b.out.kind = "error")
               => b.out.instance = ZeroInstance(type)
            /\ (b.op = "Assert(config)" /\ b.out.kind = "ok")
               => \A n \in 1..Len(type.fields) :
                     \/ b.out.instance[n] = Zero(type.fields[n].Type)
                     \/ /\ type.fields[n].Name \in DOMAIN b.val.environment
                        /\ b.val.environment[type.fields[n].Name].Value.t # "invalid" ]_vars

\* Assert returned an error and the zero instance for an argument whose
\* fields were filled in
C30_Witness ==
    LET c == call[Main]
    IN  /\ c.op = "Assert(config)" /\ Returned(c) /\ c.out.kind = "error"
        /\ Schemas[TypeOf(c.t)] = ServerConfig
        /\ c.t.fields = << <<"p","r","e","s","e","t">>, << "7" >> >>
        /\ c.out.instance = << << >>, << "0" >> >>

=============================================================================
